---- MODULE Spec2Model ----
(***************************************************************************)
(* Wallet RPC layer of ghost-core (src/wallet/rpcwallet.cpp): the wallet   *)
(* unlock / relock timer, the rescan reservation, the locked-coin set,     *)
(* funding, sending and fee bumping, as state machines over one wallet.    *)
(***************************************************************************)
EXTENDS Integers, Naturals, Sequences, FiniteSets, TLC

(***************************************************************************)
(* Bounds of the model.                                                    *)
(***************************************************************************)
MaxTime == 3      \* GetTime() ranges over 1..MaxTime
MaxSleep == 2     \* requested timeouts range over -1..MaxSleep
MaxCalls == 3     \* walletpassphrase calls started in one behaviour

MAX_SLEEP_TIME == 100000000

Threads == {1, 2}
NoThread == 0
NoTimer == [relock_time |-> -1, due |-> -1, owner |-> 0]
NoStamp == [owner |-> 0, unlimited |-> FALSE, stamp |-> 0]
IdleCall == [pc |-> "idle", nSleepTime |-> 0, stakingonly |-> FALSE,
             pass |-> "", relock_time |-> 0, id |-> 0]

VARIABLES
    \* ---- wallet encryption / relock timer
    fParticlMode,           \* IsParticlWallet(pwallet)
    fCrypted,               \* pwallet->IsCrypted()
    fLocked,                \* pwallet->IsLocked()
    fUnlockForStakingOnly,  \* CHDWallet::fUnlockForStakingOnly
    nRelockTime,            \* pwallet->nRelockTime
    now,                    \* GetTime()
    timer,                  \* the deadline timer "lockwallet(<name>)"
    m_unlock_mutex,         \* holder of pwallet->m_unlock_mutex
    wp,                     \* walletpassphrase calls in flight, per thread
    lastRet,                \* result of the call that returned last, per thread
    \* ---- history of the relock protocol
    callSeq,                \* number of walletpassphrase calls started
    lastStamp,              \* the call that stamped nRelockTime last
    staleLockEarly,         \* a superseded callback locked the wallet early
    \* ---- rescan reservation
    fScanningWallet,        \* CWallet::fScanningWallet, the reservation flag
    rs,                     \* rescanblockchain calls in flight, per thread
    rsRet,                  \* result of the rescanblockchain call that returned last
    rsCalls,                \* number of rescanblockchain calls started
    rsCaller,               \* the thread that started the latest call
    walletScans,            \* scans run by ScanForWalletTransactions
    last_scanned_height,    \* result.last_scanned_height of the latest scan
    \* ---- ledger and coins
    mapWallet,              \* mapWallet and mapRecords: txid -> wallet transaction
    setLockedCoins,         \* CWallet::setLockedCoins
    setPermLocked,          \* locks recorded in the wallet database
    setUsedKeys,            \* addresses marked as spent from (IsSpentKey)
    fAvoidReuse,            \* IsWalletFlagSet(WALLET_FLAG_AVOID_REUSE)
    handedOff,              \* transactions handed to broadcast
    opRet,                  \* what the latest coin operation returned
    \* ---- history of the lock requests
    requestedLocks,         \* coins a request locked and none has unlocked since
    \* ---- listunspent
    lu,                     \* listunspent calls in flight, per thread
    luRet,                  \* what the listunspent call that returned last listed
    \* ---- fee policy of the wallet, in fee per 1000 bytes
    m_pay_tx_fee,           \* pwallet->m_pay_tx_fee
    m_min_fee,              \* pwallet->m_min_fee
    m_default_max_tx_fee,   \* pwallet->m_default_max_tx_fee
    relayMinFee,            \* pwallet->chain().relayMinFee()
    \* ---- watched scripts
    setWatchOnly            \* LegacyScriptPubKeyMan::setWatchOnly, as addresses

lockVars == <<fParticlMode, fCrypted, fLocked, fUnlockForStakingOnly, nRelockTime,
              now, timer, m_unlock_mutex, wp, lastRet, callSeq, lastStamp,
              staleLockEarly>>

rescanVars == <<fScanningWallet, rs, rsRet, rsCalls, rsCaller, walletScans,
                last_scanned_height>>

coinVars == <<mapWallet, setLockedCoins, setPermLocked, setUsedKeys, fAvoidReuse,
              handedOff, opRet, requestedLocks>>

listVars == <<lu, luRet>>

feeVars == <<m_pay_tx_fee, m_min_fee, m_default_max_tx_fee, relayMinFee>>

watchVars == <<setWatchOnly>>

vars == <<lockVars, rescanVars, coinVars, listVars, feeVars, watchVars>>

otherThanLock == <<rescanVars, coinVars, listVars, feeVars, watchVars>>
otherThanRescan == <<lockVars, coinVars, listVars, feeVars, watchVars>>
otherThanCoins == <<lockVars, rescanVars, listVars, feeVars, watchVars>>
otherThanList == <<lockVars, rescanVars, coinVars, feeVars, watchVars>>

Min(a, b) == IF a < b THEN a ELSE b

(***************************************************************************)
(* walletpassphrase                                                        *)
(***************************************************************************)
Passphrases == {"", "good", "bad"}
SleepInputs == (-1)..MaxSleep

\* LOCK(pwallet->m_unlock_mutex), then under cs_wallet the checks of the
\* arguments: not crypted, negative timeout, clamp, empty passphrase.
WpEnter(t, sleep, staking, pass) ==
    /\ wp[t].pc = "idle"
    /\ m_unlock_mutex = NoThread
    /\ callSeq < MaxCalls
    /\ callSeq' = callSeq + 1
    /\ IF ~fCrypted
       THEN /\ lastRet' = [lastRet EXCEPT ![t] = "RPC_WALLET_WRONG_ENC_STATE"]
            /\ UNCHANGED <<wp, m_unlock_mutex>>
       ELSE IF sleep < 0
       THEN /\ lastRet' = [lastRet EXCEPT ![t] = "RPC_INVALID_PARAMETER"]
            /\ UNCHANGED <<wp, m_unlock_mutex>>
       ELSE IF pass = ""
       THEN /\ lastRet' = [lastRet EXCEPT ![t] = "RPC_INVALID_PARAMETER"]
            /\ UNCHANGED <<wp, m_unlock_mutex>>
       ELSE /\ wp' = [wp EXCEPT ![t] = [pc |-> "unlock",
                                         nSleepTime |-> Min(sleep, MAX_SLEEP_TIME),
                                         stakingonly |-> staking,
                                         pass |-> pass,
                                         relock_time |-> 0,
                                         id |-> callSeq + 1]]
            /\ m_unlock_mutex' = t
            /\ lastRet' = [lastRet EXCEPT ![t] = "running"]
    /\ UNCHANGED otherThanLock
    /\ UNCHANGED <<fParticlMode, fCrypted, fLocked, fUnlockForStakingOnly,
                   nRelockTime, now, timer, lastStamp, staleLockEarly>>

\* pwallet->Unlock(strWalletPass), called without cs_wallet held by the RPC.
WpUnlock(t) ==
    /\ wp[t].pc = "unlock"
    /\ IF wp[t].pass # "good"
       THEN /\ wp' = [wp EXCEPT ![t] = IdleCall]
            /\ m_unlock_mutex' = NoThread
            /\ lastRet' = [lastRet EXCEPT ![t] = "RPC_WALLET_PASSPHRASE_INCORRECT"]
            /\ UNCHANGED fLocked
       ELSE /\ wp' = [wp EXCEPT ![t].pc = "stamp"]
            /\ fLocked' = FALSE
            /\ UNCHANGED <<m_unlock_mutex, lastRet>>
    /\ UNCHANGED otherThanLock
    /\ UNCHANGED <<fParticlMode, fCrypted, fUnlockForStakingOnly, nRelockTime,
                   now, timer, callSeq, lastStamp, staleLockEarly>>

\* Under cs_wallet: TopUpKeyPool, the staking-only flag, and the stamp
\* nRelockTime = GetTime() + nSleepTime, copied to relock_time.
WpStamp(t) ==
    /\ wp[t].pc = "stamp"
    /\ fUnlockForStakingOnly' =
           IF fParticlMode THEN wp[t].stakingonly ELSE fUnlockForStakingOnly
    /\ nRelockTime' = now + wp[t].nSleepTime
    /\ wp' = [wp EXCEPT ![t].pc = "sched", ![t].relock_time = now + wp[t].nSleepTime]
    /\ lastStamp' = [owner |-> wp[t].id,
                     unlimited |-> (wp[t].nSleepTime = 0 /\ wp[t].stakingonly),
                     stamp |-> now + wp[t].nSleepTime]
    /\ UNCHANGED otherThanLock
    /\ UNCHANGED <<fParticlMode, fCrypted, fLocked, now, timer, m_unlock_mutex,
                   lastRet, callSeq, staleLockEarly>>

\* Without cs_wallet: rpcRunLater replaces the timer of the same name, or,
\* for the unlimited staking unlock, RPCRunLaterErase removes it.
WpSchedule(t) ==
    /\ wp[t].pc = "sched"
    /\ IF wp[t].nSleepTime > 0 \/ ~wp[t].stakingonly
       THEN /\ timer' = [relock_time |-> wp[t].relock_time,
                         due |-> now + wp[t].nSleepTime,
                         owner |-> wp[t].id]
            /\ wp' = [wp EXCEPT ![t] = IdleCall]
            /\ m_unlock_mutex' = NoThread
            /\ lastRet' = [lastRet EXCEPT ![t] = "ok"]
       ELSE /\ timer' = NoTimer
            /\ wp' = [wp EXCEPT ![t].pc = "zero"]
            /\ UNCHANGED <<m_unlock_mutex, lastRet>>
    /\ UNCHANGED otherThanLock
    /\ UNCHANGED <<fParticlMode, fCrypted, fLocked, fUnlockForStakingOnly,
                   nRelockTime, now, callSeq, lastStamp, staleLockEarly>>

\* The else branch continues under cs_wallet: pwallet->nRelockTime = 0.
WpZero(t) ==
    /\ wp[t].pc = "zero"
    /\ nRelockTime' = 0
    /\ wp' = [wp EXCEPT ![t] = IdleCall]
    /\ m_unlock_mutex' = NoThread
    /\ lastRet' = [lastRet EXCEPT ![t] = "ok"]
    /\ UNCHANGED otherThanLock
    /\ UNCHANGED <<fParticlMode, fCrypted, fLocked, fUnlockForStakingOnly,
                   now, timer, callSeq, lastStamp, staleLockEarly>>

(***************************************************************************)
(* The callback given to rpcRunLater, run by the timer thread.             *)
(***************************************************************************)
\* Whether the callback goes on to Lock(): "Skip if this is not the most
\* recent rpcRunLater callback."
RelockCallbackLocks_never(tm) == FALSE

RelockCallbackLocks(tm) == nRelockTime = tm.relock_time

\* The firing callback belongs to a call that a later call has superseded,
\* and the later call's own timeout has not elapsed.
SupersededEarly(tm) ==
    /\ lastStamp.owner # 0
    /\ tm.owner # lastStamp.owner
    /\ (lastStamp.unlimited \/ now < lastStamp.stamp)

TimerFire ==
    /\ timer # NoTimer
    /\ now >= timer.due
    /\ timer' = NoTimer
    /\ IF RelockCallbackLocks(timer)
       THEN /\ fLocked' = TRUE
            /\ nRelockTime' = 0
            /\ staleLockEarly' = (staleLockEarly \/ SupersededEarly(timer))
       ELSE UNCHANGED <<fLocked, nRelockTime, staleLockEarly>>
    /\ UNCHANGED otherThanLock
    /\ UNCHANGED <<fParticlMode, fCrypted, fUnlockForStakingOnly, now,
                   m_unlock_mutex, wp, lastRet, callSeq, lastStamp>>

(***************************************************************************)
(* walletlock                                                              *)
(***************************************************************************)
walletlock(t) ==
    /\ wp[t].pc = "idle"
    /\ IF ~fCrypted
       THEN /\ lastRet' = [lastRet EXCEPT ![t] = "RPC_WALLET_WRONG_ENC_STATE"]
            /\ UNCHANGED <<fLocked, nRelockTime>>
       ELSE /\ fLocked' = TRUE
            /\ nRelockTime' = 0
            /\ lastRet' = [lastRet EXCEPT ![t] = "locked"]
    /\ UNCHANGED otherThanLock
    /\ UNCHANGED <<fParticlMode, fCrypted, fUnlockForStakingOnly, now, timer,
                   m_unlock_mutex, wp, callSeq, lastStamp, staleLockEarly>>

Tick ==
    /\ now < MaxTime
    /\ now' = now + 1
    /\ UNCHANGED otherThanLock
    /\ UNCHANGED <<fParticlMode, fCrypted, fLocked, fUnlockForStakingOnly,
                   nRelockTime, timer, m_unlock_mutex, wp, lastRet, callSeq,
                   lastStamp, staleLockEarly>>

InitLock ==
    /\ fParticlMode \in BOOLEAN
    /\ fCrypted \in BOOLEAN
    /\ fLocked = fCrypted
    /\ fUnlockForStakingOnly = FALSE
    /\ nRelockTime = 0
    /\ now = 1
    /\ timer = NoTimer
    /\ m_unlock_mutex = NoThread
    /\ wp = [t \in Threads |-> IdleCall]
    /\ lastRet = [t \in Threads |-> "none"]
    /\ callSeq = 0
    /\ lastStamp = NoStamp
    /\ staleLockEarly = FALSE

\* The state in which walletpassphrase("good", MaxSleep) of an encrypted
\* wallet returned at time 1: unlocked, stamped, its relock timer pending.
InitAfterUnlock ==
    /\ fParticlMode \in BOOLEAN
    /\ fCrypted = TRUE
    /\ fLocked = FALSE
    /\ fUnlockForStakingOnly \in (IF fParticlMode THEN BOOLEAN ELSE {FALSE})
    /\ nRelockTime = 1 + MaxSleep
    /\ now = 1
    /\ timer = [relock_time |-> 1 + MaxSleep, due |-> 1 + MaxSleep, owner |-> 1]
    /\ m_unlock_mutex = NoThread
    /\ wp = [t \in Threads |-> IdleCall]
    /\ lastRet = [t \in Threads |-> IF t = 1 THEN "ok" ELSE "none"]
    /\ callSeq = 1
    /\ lastStamp = [owner |-> 1, unlimited |-> FALSE, stamp |-> 1 + MaxSleep]
    /\ staleLockEarly = FALSE

\* The encryption states a wallet is used in: unencrypted, or encrypted
\* and unlocked by an earlier walletpassphrase.
InitKeys == (InitLock /\ ~fCrypted) \/ InitAfterUnlock

(***************************************************************************)
(* rescanblockchain                                                        *)
(***************************************************************************)
MaxRescans == 3   \* rescanblockchain calls started in one behaviour
TipHeight == 1    \* pwallet->GetLastBlockHeight()

NullParam == [null |-> TRUE, v |-> 0]
HeightParams == {NullParam} \cup {[null |-> FALSE, v |-> h] : h \in (-1)..(TipHeight + 1)}
IdleRescan == [pc |-> "idle", could_reserve |-> FALSE, start |-> NullParam,
               stop |-> NullParam, start_height |-> 0]
ScanStatus == {"SUCCESS", "FAILURE", "USER_ABORT"}

\* WalletRescanReserver::reserve(): takes the flag if it is free.
ReserverReserve == ~fScanningWallet

\* Mutant: the result of reserve() is not looked at.
RescanRejectsBusy_ignored(could_reserve) == FALSE

\* "if (!reserver.reserve()) throw": the call is rejected as busy.
RescanRejectsBusy(could_reserve) == ~could_reserve

\* ~WalletRescanReserver(): only the call that reserved releases the flag.
ReserverRelease(t) == IF rs[t].could_reserve THEN FALSE ELSE fScanningWallet

\* The parameter checks under cs_wallet; "ok" when none throws.
RescanValidate(start, stop, hasBlocks) ==
    LET start_height == IF start.null THEN 0 ELSE start.v IN
    IF ~start.null /\ (start.v < 0 \/ start.v > TipHeight)
    THEN "Invalid start_height"
    ELSE IF ~stop.null /\ (stop.v < 0 \/ stop.v > TipHeight)
    THEN "Invalid stop_height"
    ELSE IF ~stop.null /\ stop.v < start_height
    THEN "stop_height must be greater than start_height"
    ELSE IF ~hasBlocks
    THEN "Can't rescan beyond pruned data"
    ELSE "ok"

\* WalletRescanReserver reserver(*pwallet); reserver.reserve()
RsReserve(t, start, stop) ==
    /\ rs[t].pc = "idle"
    /\ rsCalls < MaxRescans
    /\ rsCalls' = rsCalls + 1
    /\ rsCaller' = t
    /\ LET could_reserve == ReserverReserve IN
       IF RescanRejectsBusy(could_reserve)
       THEN /\ rsRet' = [rsRet EXCEPT ![t] = "Wallet is currently rescanning"]
            /\ UNCHANGED <<rs, fScanningWallet>>
       ELSE /\ rs' = [rs EXCEPT ![t] = [pc |-> "validate",
                                         could_reserve |-> could_reserve,
                                         start |-> start, stop |-> stop,
                                         start_height |-> 0]]
            /\ fScanningWallet' = TRUE
            /\ rsRet' = [rsRet EXCEPT ![t] = "running"]
    /\ UNCHANGED <<walletScans, last_scanned_height>>
    /\ UNCHANGED otherThanRescan

\* The block under LOCK(pwallet->cs_wallet): heights and pruned data.
RsValidate(t, hasBlocks) ==
    /\ rs[t].pc = "validate"
    /\ LET verdict == RescanValidate(rs[t].start, rs[t].stop, hasBlocks) IN
       IF verdict # "ok"
       THEN /\ rsRet' = [rsRet EXCEPT ![t] = verdict]
            /\ fScanningWallet' = ReserverRelease(t)
            /\ rs' = [rs EXCEPT ![t] = IdleRescan]
       ELSE /\ rs' = [rs EXCEPT ![t].pc = "scan",
                                ![t].start_height =
                                    IF rs[t].start.null THEN 0 ELSE rs[t].start.v]
            /\ UNCHANGED <<rsRet, fScanningWallet>>
    /\ UNCHANGED <<rsCalls, rsCaller, walletScans, last_scanned_height>>
    /\ UNCHANGED otherThanRescan

\* Mutant: the reservation is released where the response is built, so the
\* two throwing cases of the switch keep it.
RsScan_successOnly(t, status) ==
    /\ rs[t].pc = "scan"
    /\ walletScans' = walletScans + 1
    /\ last_scanned_height' =
           IF status = "SUCCESS"
           THEN (IF rs[t].stop.null THEN TipHeight ELSE rs[t].stop.v)
           ELSE last_scanned_height
    /\ rsRet' = [rsRet EXCEPT ![t] =
                    CASE status = "SUCCESS" -> "ok"
                      [] status = "FAILURE" -> "Rescan failed"
                      [] status = "USER_ABORT" -> "Rescan aborted"]
    /\ fScanningWallet' =
           IF status = "SUCCESS" THEN ReserverRelease(t) ELSE fScanningWallet
    /\ rs' = [rs EXCEPT ![t] = IdleRescan]
    /\ UNCHANGED <<rsCalls, rsCaller>>
    /\ UNCHANGED otherThanRescan

\* ScanForWalletTransactions and the switch on result.status.
RsScan(t, status) ==
    /\ rs[t].pc = "scan"
    /\ walletScans' = walletScans + 1
    /\ last_scanned_height' =
           IF status = "SUCCESS"
           THEN (IF rs[t].stop.null THEN TipHeight ELSE rs[t].stop.v)
           ELSE last_scanned_height
    /\ rsRet' = [rsRet EXCEPT ![t] =
                    CASE status = "SUCCESS" -> "ok"
                      [] status = "FAILURE" -> "Rescan failed"
                      [] status = "USER_ABORT" -> "Rescan aborted"]
    /\ fScanningWallet' = ReserverRelease(t)
    /\ rs' = [rs EXCEPT ![t] = IdleRescan]
    /\ UNCHANGED <<rsCalls, rsCaller>>
    /\ UNCHANGED otherThanRescan

InitRescan ==
    /\ fScanningWallet = FALSE
    /\ rs = [t \in Threads |-> IdleRescan]
    /\ rsRet = [t \in Threads |-> "none"]
    /\ rsCalls = 0
    /\ rsCaller = NoThread
    /\ walletScans = 0
    /\ last_scanned_height = -1

(***************************************************************************)
(* The ledger: wallet transactions, their outputs and the coins.           *)
(***************************************************************************)
MaxTx == 5        \* wallet transactions are numbered 1..MaxTx

TxIds == 1..MaxTx
UnknownTx == MaxTx + 1
OutPoints == TxIds \X {0, 1, 2}
Addresses == {"A", "B", "C", "X"}
OwnAddresses == {"A", "B", "C"}   \* "C" is the next change address of the keypool

NoTx == [present |-> FALSE, ledger |-> "plain", vin |-> {}, vout |-> <<>>,
         nFee |-> 0, replaceable |-> FALSE, depth |-> 0, abandoned |-> FALSE,
         replaced_by |-> 0, in_mempool |-> FALSE, kind |-> "normal"]

Out(value, mine, addr) ==
    [value |-> value, mine |-> mine, addr |-> addr, type |-> "standard"]

RECURSIVE SumOver(_, _)
SumOver(S, f) ==
    IF S = {} THEN 0
    ELSE LET x == CHOOSE x \in S : TRUE IN f[x] + SumOver(S \ {x}, f)

HaveTx(hash) == hash \in TxIds /\ mapWallet[hash].present
InMapWallet(hash) == HaveTx(hash) /\ mapWallet[hash].ledger = "plain"
InMapRecords(hash) == HaveTx(hash) /\ mapWallet[hash].ledger = "record"
NumVOuts(hash) == Len(mapWallet[hash].vout)
HaveOutput(op) == HaveTx(op[1]) /\ op[2] >= 0 /\ op[2] < NumVOuts(op[1])
OutputOf(op) == mapWallet[op[1]].vout[op[2] + 1]

\* CWallet::IsSpent: some wallet transaction that is confirmed, or
\* unconfirmed and not abandoned, spends the outpoint.
IsSpent(hash, n) ==
    \E s \in TxIds :
        /\ mapWallet[s].present
        /\ <<hash, n>> \in mapWallet[s].vin
        /\ (mapWallet[s].depth > 0
            \/ (mapWallet[s].depth = 0 /\ ~mapWallet[s].abandoned))

IsLockedCoin(hash, n) == <<hash, n>> \in setLockedCoins

COIN == 100000000

\* ValueFromAmount: the amount as a decimal number of coins, a sign, the
\* whole coins and the eight digits after the point.
ValueFromAmount(amount) ==
    LET n_abs == IF amount < 0 THEN -amount ELSE amount
    IN [sign |-> amount < 0, quotient |-> n_abs \div COIN,
        remainder |-> n_abs % COIN]

\* The result of a coin operation that has not touched anything yet.
NoOp == [op |-> "none", ret |-> "none", tick |-> 0, fUnlock |-> FALSE,
         partial |-> FALSE, txid |-> 0, fCreated |-> FALSE, auto |-> {},
         lockUnspents |-> "absent", stages |-> <<>>, fSigned |-> FALSE,
         hash |-> 0, origfee |-> ValueFromAmount(0), fee |-> ValueFromAmount(0),
         short |-> FALSE, msg |-> "", amount |-> 0, m_feerate |-> -1,
         fOverrideFeeRate |-> FALSE, vecSend |-> <<>>,
         policy |-> "none", result |-> {}, complete |-> FALSE,
         isNull |-> FALSE, outputs |-> {}, before |-> {},
         balances |-> [k \in {} |-> 0], entries |-> {}, list |-> <<>>,
         listing |-> [nCount |-> 0, nFrom |-> 0, collected |-> 0, from |-> 0],
         request |-> [add_to_wallet |-> TRUE, psbt_opt_in |-> FALSE,
                      replaceable |-> "absent"]]

\* The result record of the operation that runs now.
OpResult(op, ret) == [NoOp EXCEPT !.op = op, !.ret = ret, !.tick = 1 - opRet.tick]

InitLedger ==
    /\ mapWallet =
          [h \in TxIds |->
              CASE h = 1 -> [NoTx EXCEPT !.present = TRUE, !.depth = 1,
                                 !.vout = <<Out(5, TRUE, "A"), Out(3, TRUE, "B")>>]
                [] h = 2 -> [NoTx EXCEPT !.present = TRUE, !.depth = 1,
                                 !.ledger = IF fParticlMode THEN "record" ELSE "plain",
                                 !.vout = <<Out(4, TRUE, "A")>>]
                [] h = 3 -> [NoTx EXCEPT !.present = TRUE, !.depth = 0,
                                 !.vin = {<<1, 1>>}, !.nFee = 1,
                                 !.replaceable = TRUE, !.in_mempool = TRUE,
                                 !.vout = <<Out(1, FALSE, "X"), Out(1, TRUE, "B")>>]
                [] OTHER -> NoTx]
    /\ setLockedCoins = {}
    /\ setPermLocked = {}
    /\ setUsedKeys = {"B"}
    /\ handedOff = {3}
    /\ opRet = NoOp
    /\ requestedLocks = {}
    /\ setWatchOnly = {}

InitCoins ==
    /\ InitLedger
    /\ fAvoidReuse = FALSE

(***************************************************************************)
(* lockunspent                                                             *)
(***************************************************************************)
OutputRefs ==
    {[txid |-> op[1], vout |-> op[2]] : op \in {1, 2, 3} \X {0, 1}}
        \cup {[txid |-> 1, vout |-> -1], [txid |-> 1, vout |-> 2],
              [txid |-> UnknownTx, vout |-> 0]}

\* The checks of one element of "transactions", in the order of the loop body.
OutputError(fUnlock, o) ==
    IF o.vout < 0
    THEN "vout must be positive"
    ELSE IF fParticlMode /\ ~InMapWallet(o.txid) /\ ~InMapRecords(o.txid)
    THEN "unknown transaction"
    ELSE IF ~fParticlMode /\ ~InMapWallet(o.txid)
    THEN "unknown transaction"
    ELSE IF o.vout >= NumVOuts(o.txid)
    THEN "vout index out of bounds"
    ELSE IF IsSpent(o.txid, o.vout)
    THEN "expected unspent output"
    ELSE IF fUnlock /\ ~IsLockedCoin(o.txid, o.vout)
    THEN "expected locked output"
    ELSE IF ~fUnlock /\ IsLockedCoin(o.txid, o.vout)
    THEN "output already locked"
    ELSE "ok"

\* "Create and validate the COutPoints first": the first error of the loop.
RECURSIVE ValidateOutputs(_, _, _)
ValidateOutputs(fUnlock, outs, idx) ==
    IF idx > Len(outs) THEN "ok"
    ELSE LET e == OutputError(fUnlock, outs[idx]) IN
         IF e # "ok" THEN e ELSE ValidateOutputs(fUnlock, outs, idx + 1)

\* The index of the element the validation loop stops at, 0 if at none.
RECURSIVE FailedAt(_, _, _)
FailedAt(fUnlock, outs, idx) ==
    IF idx > Len(outs) THEN 0
    ELSE IF OutputError(fUnlock, outs[idx]) # "ok" THEN idx
    ELSE FailedAt(fUnlock, outs, idx + 1)

SeqToOutPoints(outs) == {<<outs[i].txid, outs[i].vout>> : i \in 1..Len(outs)}

\* Mutant: UnlockCoin is called for the unlock requests, LockCoin never.
ApplyLocks_unlockOnly(fUnlock, ops, fPermanent, sets) ==
    IF fUnlock
    THEN [locked |-> sets.locked \ ops, perm |-> sets.perm \ ops]
    ELSE sets

\* "Atomically set (un)locked status for the outputs."
ApplyLocks(fUnlock, ops, fPermanent, sets) ==
    IF fUnlock
    THEN [locked |-> sets.locked \ ops, perm |-> sets.perm \ ops]
    ELSE [locked |-> sets.locked \cup ops,
          perm |-> IF fPermanent THEN sets.perm \cup ops ELSE sets.perm]

\* Mutant: each output is (un)locked as soon as it has passed its own checks,
\* so the outputs before an offending one stay changed.
RECURSIVE EagerLocks(_, _, _, _, _)
EagerLocks(fUnlock, outs, idx, permanent, sets) ==
    IF idx > Len(outs)
    THEN [ret |-> IF permanent = "illtyped" THEN "RPC_TYPE_ERROR" ELSE "true",
          locked |-> sets.locked, perm |-> sets.perm]
    ELSE LET o == outs[idx]
             e == IF o.vout < 0 THEN "bad"
                  ELSE IF ~HaveTx(o.txid) THEN "bad"
                  ELSE IF o.vout >= NumVOuts(o.txid) THEN "bad"
                  ELSE IF IsSpent(o.txid, o.vout) THEN "bad"
                  ELSE IF fUnlock /\ <<o.txid, o.vout>> \notin sets.locked THEN "bad"
                  ELSE IF ~fUnlock /\ <<o.txid, o.vout>> \in sets.locked THEN "bad"
                  ELSE "ok"
         IN IF e # "ok"
            THEN [ret |-> "RPC_INVALID_PARAMETER", locked |-> sets.locked,
                  perm |-> sets.perm]
            ELSE EagerLocks(fUnlock, outs, idx + 1, permanent,
                            ApplyLocks(fUnlock, {<<o.txid, o.vout>>},
                                       permanent = "true", sets))

LockunspentEffect_eager(fUnlock, transactions, permanent) ==
    IF transactions.null
    THEN [ret |-> "true",
          locked |-> IF fUnlock THEN {} ELSE setLockedCoins,
          perm |-> IF fUnlock THEN {} ELSE setPermLocked]
    ELSE EagerLocks(fUnlock, transactions.v, 1, permanent,
                    [locked |-> setLockedCoins, perm |-> setPermLocked])

\* The whole handler: what it returns and the locked-coin sets it leaves.
LockunspentEffect(fUnlock, transactions, permanent) ==
    LET unchanged == [locked |-> setLockedCoins, perm |-> setPermLocked] IN
    IF transactions.null
    THEN [ret |-> "true",
          locked |-> IF fUnlock THEN {} ELSE setLockedCoins,
          perm |-> IF fUnlock THEN {} ELSE setPermLocked]
    ELSE IF ValidateOutputs(fUnlock, transactions.v, 1) # "ok"
    THEN [ret |-> "RPC_INVALID_PARAMETER"] @@ unchanged
    ELSE IF permanent = "illtyped"
    THEN [ret |-> "RPC_TYPE_ERROR"] @@ unchanged
    ELSE [ret |-> "true"]
            @@ ApplyLocks(fUnlock, SeqToOutPoints(transactions.v),
                          permanent = "true", unchanged)

\* What the request asks for, once it has been accepted.
RequestedAfter(fUnlock, transactions) ==
    IF transactions.null
    THEN (IF fUnlock THEN {} ELSE requestedLocks)
    ELSE IF fUnlock
    THEN requestedLocks \ SeqToOutPoints(transactions.v)
    ELSE requestedLocks \cup SeqToOutPoints(transactions.v)

lockunspent(fUnlock, transactions, permanent) ==
    /\ LET eff == LockunspentEffect(fUnlock, transactions, permanent) IN
       /\ setLockedCoins' = eff.locked
       /\ setPermLocked' = eff.perm
       /\ opRet' = [OpResult("lockunspent", eff.ret) EXCEPT
                       !.fUnlock = fUnlock,
                       !.partial = ~transactions.null
                                   /\ FailedAt(fUnlock, transactions.v, 1) > 1,
                       !.isNull = transactions.null,
                       !.outputs = IF eff.ret = "true"
                                   THEN SeqToOutPoints(transactions.v) ELSE {},
                       !.before = IF eff.ret = "true" THEN setLockedCoins ELSE {}]
       /\ requestedLocks' =
              IF eff.ret = "true" THEN RequestedAfter(fUnlock, transactions)
              ELSE requestedLocks
    /\ UNCHANGED <<mapWallet, setUsedKeys, fAvoidReuse, handedOff>>
    /\ UNCHANGED otherThanCoins

(***************************************************************************)
(* listlockunspent                                                         *)
(***************************************************************************)
listlockunspent ==
    LET \* CWallet::ListLockedCoins: setLockedCoins copied in its order.
        Before(a, b) == a[1] < b[1] \/ (a[1] = b[1] /\ a[2] < b[2])
        RECURSIVE ListLockedCoins(_)
        ListLockedCoins(coins) ==
            IF coins = {} THEN <<>>
            ELSE LET first == CHOOSE a \in coins :
                                  \A b \in coins \ {a} : Before(a, b)
                 IN <<first>> \o ListLockedCoins(coins \ {first})
        vOutpts == ListLockedCoins(setLockedCoins)
    IN
    /\ opRet' = [OpResult("listlockunspent", "ok") EXCEPT
                    !.list = [i \in 1..Len(vOutpts) |->
                                 [txid |-> vOutpts[i][1], vout |-> vOutpts[i][2]]]]
    /\ UNCHANGED <<mapWallet, setLockedCoins, setPermLocked, setUsedKeys,
                   fAvoidReuse, handedOff, requestedLocks>>
    /\ UNCHANGED otherThanCoins


(***************************************************************************)
(* Coin selection, transaction creation and commit (CWallet).              *)
(***************************************************************************)
TxFee == 1        \* nFeeRequired of a newly created transaction

ValueOf == [op \in OutPoints |-> IF HaveOutput(op) THEN OutputOf(op).value ELSE 0]

\* CWallet::IsSpentKey: the output pays to an address already spent from.
IsSpentKey(hash, n) == OutputOf(<<hash, n>>).addr \in setUsedKeys

\* CWalletTx::IsTrusted and the "replaced_by_txid" test of AvailableCoins.
SafeTx(hash) ==
    \/ mapWallet[hash].depth > 0
    \/ /\ mapWallet[hash].in_mempool
       /\ mapWallet[hash].replaced_by = 0
       /\ mapWallet[hash].vin # {}

\* CWallet::AvailableCoins: the wallet's own outputs that are unspent and
\* not locked, of transactions that are confirmed or in the mempool.
AvailableCoins(fOnlySafe, avoid_reuse) ==
    {op \in OutPoints :
        /\ HaveOutput(op)
        /\ OutputOf(op).mine
        /\ OutputOf(op).type = "standard"
        /\ mapWallet[op[1]].kind = "normal"
        /\ ~mapWallet[op[1]].abandoned
        /\ (mapWallet[op[1]].depth > 0 \/ mapWallet[op[1]].in_mempool)
        /\ (fOnlySafe => SafeTx(op[1]))
        /\ ~IsSpent(op[1], op[2])
        /\ ~IsLockedCoin(op[1], op[2])
        /\ (avoid_reuse => ~IsSpentKey(op[1], op[2]))}

Recipient(address, amount, subtract_fee) ==
    [address |-> address, amount |-> amount, subtract_fee |-> subtract_fee]

NotCreated == [fCreated |-> FALSE, vin |-> {}, auto |-> {}, vout |-> <<>>,
               nFee |-> 0, nChangePosRet |-> -1]

\* No pre-selected input, and the coins the selection may take do not add
\* up to the outputs plus the fee.
Uncovered(vecSend, selected, avoid_reuse) ==
    /\ selected = {}
    /\ SumOver(AvailableCoins(TRUE, avoid_reuse), ValueOf)
           < SumOver(1..Len(vecSend), [i \in 1..Len(vecSend) |-> vecSend[i].amount])
                + (IF \E i \in 1..Len(vecSend) : vecSend[i].subtract_fee
                   THEN 0 ELSE TxFee)

\* CWallet::CreateTransaction: every transaction it may return for the
\* recipients, the preset inputs and the coins it may add, or a failure
\* (no covering selection, an output that would not stay positive, no
\* change key, a signing failure).  The fee is taken in equal parts from
\* the recipients that asked for it, the remainder from the first of them.
CreateTransaction(vecSend, selected, add_inputs, avoid_reuse, change_position) ==
    LET n == Len(vecSend)
        flagged == {i \in 1..n : vecSend[i].subtract_fee}
        Share(i) ==
            IF i \notin flagged THEN 0
            ELSE TxFee \div Cardinality(flagged)
                   + (IF \A j \in flagged : i <= j
                      THEN TxFee % Cardinality(flagged) ELSE 0)
        paid == [i \in 1..n |-> vecSend[i].amount - Share(i)]
        need == SumOver(1..n, paid) + TxFee
        pool == IF add_inputs THEN AvailableCoins(TRUE, avoid_reuse) \ selected
                ELSE {}
        known == \A op \in selected : HaveOutput(op)
        covering == {auto \in SUBSET pool :
                        SumOver(selected \cup auto, ValueOf) >= need}
        payments == [i \in 1..n |->
                        Out(paid[i], vecSend[i].address \in OwnAddresses,
                            vecSend[i].address)]
        Built(auto) ==
            LET change == SumOver(selected \cup auto, ValueOf) - need
                positions == IF change_position = -1 THEN 0..n
                             ELSE {change_position}
            IN IF change = 0
               THEN {[fCreated |-> TRUE, vin |-> selected \cup auto, auto |-> auto,
                      vout |-> payments, nFee |-> TxFee, nChangePosRet |-> -1]}
               ELSE {[fCreated |-> TRUE, vin |-> selected \cup auto, auto |-> auto,
                      vout |-> SubSeq(payments, 1, pos)
                                  \o <<Out(change, TRUE, "C")>>
                                  \o SubSeq(payments, pos + 1, n),
                      nFee |-> TxFee, nChangePosRet |-> pos] : pos \in positions}
    IN {NotCreated}
         \cup (IF n > 0 /\ (\A i \in 1..n : paid[i] > 0) /\ known
               THEN UNION {Built(auto) : auto \in covering}
               ELSE {})

FreeTxIds == {h \in TxIds : ~mapWallet[h].present}
NewTxId == CHOOSE h \in FreeTxIds : \A g \in FreeTxIds : h <= g

\* CWallet::CommitTransaction: the transaction enters the ledger, the
\* addresses of its inputs are marked as spent from, and it is handed to
\* broadcast, which the mempool accepts or not.
CommitTransaction(cr, replaceable, accepted) ==
    /\ mapWallet' = [mapWallet EXCEPT ![NewTxId] =
                        [NoTx EXCEPT !.present = TRUE, !.vin = cr.vin,
                                     !.vout = cr.vout, !.nFee = cr.nFee,
                                     !.replaceable = replaceable,
                                     !.in_mempool = accepted]]
    /\ handedOff' = handedOff \cup {NewTxId}
    /\ setUsedKeys' =
           IF fAvoidReuse
           THEN setUsedKeys \cup {OutputOf(op).addr : op \in {o \in cr.vin : HaveOutput(o)}}
           ELSE setUsedKeys

(***************************************************************************)
(* EnsureWalletIsUnlocked, SendMoney, sendtoaddress                        *)
(***************************************************************************)
WalletUnlockNeeded == fLocked \/ (fParticlMode /\ fUnlockForStakingOnly)

\* Mutant: the result of CreateTransaction is not looked at.
CreationFailed_ignored(fCreated) == FALSE

\* "if (!fCreated) throw JSONRPCError(RPC_WALLET_INSUFFICIENT_FUNDS, ...)"
CreationFailed(fCreated) == ~fCreated

SendMoney(op, recipients, avoid_reuse, replaceable, accepted) ==
    IF WalletUnlockNeeded
    THEN /\ opRet' = [OpResult(op, "RPC_WALLET_UNLOCK_NEEDED") EXCEPT
                         !.vecSend = recipients]
         /\ UNCHANGED <<mapWallet, handedOff, setUsedKeys>>
    ELSE \E cr \in CreateTransaction(recipients, {}, TRUE, avoid_reuse, -1) :
            IF CreationFailed(cr.fCreated)
            THEN /\ opRet' = [OpResult(op, "RPC_WALLET_INSUFFICIENT_FUNDS") EXCEPT
                                 !.short = Uncovered(recipients, {}, avoid_reuse),
                                 !.vecSend = recipients]
                 /\ UNCHANGED <<mapWallet, handedOff, setUsedKeys>>
            ELSE /\ CommitTransaction(cr, replaceable, accepted)
                 /\ opRet' = [OpResult(op, "txid") EXCEPT
                                 !.txid = NewTxId, !.fCreated = cr.fCreated,
                                 !.auto = cr.auto, !.vecSend = recipients]

AvoidReuseParams == {"null", "true", "false"}

\* GetAvoidReuseFlag: the parameter, or the wallet flag when it is null.
GetAvoidReuseFlag(param) == IF param = "null" THEN fAvoidReuse ELSE param = "true"

\* DecodeDestination: "x" is a second spelling of the address "X"; a
\* string that is no address decodes to CNoDestination.
DecodeDestination(address) ==
    CASE address = "x" -> "X"
      [] address \in Addresses -> address
      [] OTHER -> "CNoDestination"

\* Mutant: a destination that was seen before is not looked for.
DuplicateDestination_ignored(dest, destinations) == FALSE

\* "if (destinations.count(dest)) throw ..."
DuplicateDestination(dest, destinations) == dest \in destinations

\* The first error of the loop over the recipients, in ParseRecipients
\* (AmountFromValue refuses an amount below zero) and, with positive set,
\* in the loop of sendmany ("if (nAmount <= 0)").
RECURSIVE RecipientsError(_, _, _, _)
RecipientsError(sendTo, idx, destinations, positive) ==
    IF idx > Len(sendTo) THEN "ok"
    ELSE LET dest == DecodeDestination(sendTo[idx].address)
         IN IF dest = "CNoDestination" THEN "RPC_INVALID_ADDRESS_OR_KEY"
            ELSE IF DuplicateDestination(dest, destinations)
            THEN "RPC_INVALID_PARAMETER"
            ELSE IF sendTo[idx].amount < 0 THEN "RPC_TYPE_ERROR"
            ELSE IF positive /\ sendTo[idx].amount <= 0 THEN "RPC_TYPE_ERROR"
            ELSE RecipientsError(sendTo, idx + 1, destinations \cup {dest}, positive)

\* The recipients ParseRecipients builds.
ParseRecipients(address_amounts, subtract_fee_outputs) ==
    [i \in 1..Len(address_amounts) |->
        Recipient(DecodeDestination(address_amounts[i].address),
                  address_amounts[i].amount,
                  address_amounts[i].address \in subtract_fee_outputs)]

\* The part sendtoaddress and sendmany share, under cs_wallet.  A Particl
\* wallet hands the request to sendtypeto, which checks, creates and
\* commits in the same way.  Otherwise sendmany runs its own loop over the
\* recipients before EnsureWalletIsUnlocked, and both call ParseRecipients
\* after it.
SendRecipients(rpc, sendTo, subtract, avoid_reuse, replaceable) ==
    LET recipients == ParseRecipients(sendTo, subtract)
        Throw(ret) ==
            /\ opRet' = [OpResult(rpc, ret) EXCEPT !.vecSend = recipients]
            /\ UNCHANGED <<mapWallet, handedOff, setUsedKeys>>
    IN IF fParticlMode
       THEN IF RecipientsError(sendTo, 1, {}, TRUE) # "ok"
            THEN Throw(RecipientsError(sendTo, 1, {}, TRUE))
            ELSE \E accepted \in BOOLEAN :
                    SendMoney("sendtypeto", recipients, avoid_reuse, replaceable,
                              accepted)
       ELSE IF rpc = "sendmany" /\ RecipientsError(sendTo, 1, {}, TRUE) # "ok"
       THEN Throw(RecipientsError(sendTo, 1, {}, TRUE))
       ELSE IF WalletUnlockNeeded THEN Throw("RPC_WALLET_UNLOCK_NEEDED")
       ELSE IF RecipientsError(sendTo, 1, {}, FALSE) # "ok"
       THEN Throw(RecipientsError(sendTo, 1, {}, FALSE))
       ELSE \E accepted \in BOOLEAN :
               SendMoney("SendMoney", recipients, avoid_reuse, replaceable, accepted)

sendtoaddress(address, amount, fSubtractFeeFromAmount, replaceable, avoid_param) ==
    /\ FreeTxIds # {}
    /\ IF GetAvoidReuseFlag(avoid_param) /\ ~fAvoidReuse
       THEN /\ opRet' = OpResult("sendtoaddress", "RPC_WALLET_ERROR")
            /\ UNCHANGED <<mapWallet, handedOff, setUsedKeys>>
       ELSE SendRecipients("sendtoaddress",
                           <<[address |-> address, amount |-> amount]>>,
                           IF fSubtractFeeFromAmount THEN {address} ELSE {},
                           GetAvoidReuseFlag(avoid_param), replaceable)
    /\ UNCHANGED <<setLockedCoins, setPermLocked, fAvoidReuse, requestedLocks>>
    /\ UNCHANGED otherThanCoins

sendmany(sendTo, subtractFeeFromAmount, replaceable) ==
    /\ FreeTxIds # {}
    /\ SendRecipients("sendmany", sendTo, subtractFeeFromAmount, FALSE, replaceable)
    /\ UNCHANGED <<setLockedCoins, setPermLocked, fAvoidReuse, requestedLocks>>
    /\ UNCHANGED otherThanCoins

(***************************************************************************)
(* FundTransaction, fundrawtransaction, walletcreatefundedpsbt             *)
(***************************************************************************)
DefaultOptions ==
    [kind |-> "object", add_inputs |-> "absent", change_address |-> "absent",
     change_position |-> -1, change_type |-> "absent", lockUnspents |-> "absent",
     feeRate |-> "absent", conf_target |-> "absent", estimate_mode |-> "absent",
     subtractFeeFromOutputs |-> <<>>]

\* Mutant: a change type next to a change address is let through.
FundOptionsError_lenient(options) ==
    IF options.kind # "object" THEN "ok"
    ELSE IF options.change_address = "invalid" THEN "RPC_INVALID_ADDRESS_OR_KEY"
    ELSE IF options.change_type = "unknown" THEN "RPC_INVALID_ADDRESS_OR_KEY"
    ELSE IF options.feeRate # "absent" /\ options.conf_target # "absent"
    THEN "RPC_INVALID_PARAMETER"
    ELSE IF options.feeRate # "absent" /\ options.estimate_mode # "absent"
    THEN "RPC_INVALID_PARAMETER"
    ELSE IF options.estimate_mode = "invalid" THEN "RPC_INVALID_PARAMETER"
    ELSE "ok"

\* The options, in the order FundTransaction reads them; "ok" if it reads
\* them all without throwing.
FundOptionsError(options) ==
    IF options.kind # "object" THEN "ok"
    ELSE IF options.change_address = "invalid" THEN "RPC_INVALID_ADDRESS_OR_KEY"
    ELSE IF options.change_type # "absent" /\ options.change_address # "absent"
    THEN "RPC_INVALID_PARAMETER"
    ELSE IF options.change_type = "unknown" THEN "RPC_INVALID_ADDRESS_OR_KEY"
    ELSE IF options.feeRate # "absent" /\ options.conf_target # "absent"
    THEN "RPC_INVALID_PARAMETER"
    ELSE IF options.feeRate # "absent" /\ options.estimate_mode # "absent"
    THEN "RPC_INVALID_PARAMETER"
    ELSE IF options.estimate_mode = "invalid" THEN "RPC_INVALID_PARAMETER"
    ELSE "ok"

\* The loop over subtractFeeFromOutputs: duplicated, negative, too large.
RECURSIVE SubtractError(_, _, _, _)
SubtractError(positions, idx, seen, nOutputs) ==
    IF idx > Len(positions) THEN "ok"
    ELSE IF positions[idx] \in seen THEN "RPC_INVALID_PARAMETER"
    ELSE IF positions[idx] < 0 THEN "RPC_INVALID_PARAMETER"
    ELSE IF positions[idx] >= nOutputs THEN "RPC_INVALID_PARAMETER"
    ELSE SubtractError(positions, idx + 1, seen \cup {positions[idx]}, nOutputs)

\* Mutant: lockUnspents is taken as set unless the options clear it.
FundLockUnspents_default(options) ==
    options.kind # "object" \/ options.lockUnspents # "false"

\* "bool lockUnspents = false", overwritten by the option if it exists.
FundLockUnspents(options) ==
    options.kind = "object" /\ options.lockUnspents = "true"

FundAddInputs(options, m_add_inputs) ==
    IF options.kind = "object" /\ options.add_inputs # "absent"
    THEN options.add_inputs = "true"
    ELSE m_add_inputs

FundSubtract(options) ==
    IF options.kind = "object" THEN options.subtractFeeFromOutputs ELSE <<>>

FundChangePosition(options) ==
    IF options.kind = "object" THEN options.change_position ELSE -1

NotFunded(ret) ==
    [ret |-> ret, locked |-> setLockedCoins, auto |-> {}, short |-> FALSE,
     cr |-> NotCreated]

\* CWallet::FundTransaction: CreateTransaction without signing for the
\* outputs and preset inputs of tx; the inputs it adds are locked when
\* lockUnspents is set ("Lock selected unspent outputs").
WalletFundTransaction(tx, change_position, lockUnspents, setSubtract, add_inputs) ==
    {IF cr.fCreated
     THEN [ret |-> "ok",
           locked |-> IF lockUnspents THEN setLockedCoins \cup cr.auto
                      ELSE setLockedCoins,
           auto |-> cr.auto, short |-> FALSE, cr |-> cr]
     ELSE [NotFunded("RPC_WALLET_ERROR") EXCEPT
              !.short = Uncovered(<<[tx.vout[1] EXCEPT
                                        !.subtract_fee = (0 \in setSubtract)]>>,
                                  tx.vin, FALSE)] :
        cr \in CreateTransaction(
                  <<[tx.vout[1] EXCEPT !.subtract_fee = (0 \in setSubtract)]>>,
                  tx.vin, add_inputs, FALSE, change_position)}

\* FundTransaction of the RPC layer: every outcome of the call.
FundTransaction(tx, options, m_add_inputs) ==
    LET nOutputs == Len(tx.vout)
        change_position == FundChangePosition(options)
        positions == FundSubtract(options)
    IN IF FundOptionsError(options) # "ok"
       THEN {NotFunded(FundOptionsError(options))}
       ELSE IF nOutputs = 0
       THEN {NotFunded("RPC_INVALID_PARAMETER")}
       ELSE IF change_position # -1
               /\ (change_position < 0 \/ change_position > nOutputs)
       THEN {NotFunded("RPC_INVALID_PARAMETER")}
       ELSE IF SubtractError(positions, 1, {}, nOutputs) # "ok"
       THEN {NotFunded("RPC_INVALID_PARAMETER")}
       ELSE WalletFundTransaction(tx, change_position, FundLockUnspents(options),
                                  {positions[i] : i \in 1..Len(positions)},
                                  FundAddInputs(options, m_add_inputs))

\* The request as the policy it states: with conflicting or out-of-range
\* options ("malformed"), with a change address or change type that does
\* not decode ("undecodable"), with both, or with neither.
PolicyClass(tx, options) ==
    LET positions == FundSubtract(options)
        conflicting ==
            /\ options.kind = "object"
            /\ \/ options.change_address # "absent" /\ options.change_type # "absent"
               \/ /\ options.feeRate # "absent"
                  /\ (options.conf_target # "absent"
                        \/ options.estimate_mode # "absent")
               \/ /\ options.change_position # -1
                  /\ options.change_position \notin 0..Len(tx.vout)
               \/ \E i \in 1..Len(positions) :
                     \/ positions[i] \notin 0..(Len(tx.vout) - 1)
                     \/ \E j \in 1..(i - 1) : positions[j] = positions[i]
        undecodable ==
            /\ options.kind = "object"
            /\ (options.change_address = "invalid" \/ options.change_type = "unknown")
    IN CASE conflicting /\ undecodable -> "malformed, undecodable"
         [] conflicting -> "malformed"
         [] undecodable -> "undecodable"
         [] OTHER -> "wellformed"

\* What the lockUnspents option of the request says.
LockUnspentsOption(options) ==
    IF options.kind = "object" THEN options.lockUnspents ELSE "absent"

FundResult(op, tx, options, f, ret) ==
    /\ setLockedCoins' = f.locked
    /\ opRet' = [OpResult(op, ret) EXCEPT
                    !.auto = f.auto, !.fCreated = (f.ret = "ok"),
                    !.lockUnspents = LockUnspentsOption(options),
                    !.short = f.short, !.policy = PolicyClass(tx, options)]
    /\ requestedLocks' =
           IF f.ret = "ok" /\ LockUnspentsOption(options) = "true"
           THEN requestedLocks \cup f.auto
           ELSE requestedLocks
    /\ UNCHANGED <<mapWallet, setPermLocked, setUsedKeys, fAvoidReuse, handedOff>>
    /\ UNCHANGED otherThanCoins

fundrawtransaction(tx, options) ==
    IF ~tx.decodes
    THEN /\ opRet' = OpResult("fundrawtransaction", "RPC_DESERIALIZATION_ERROR")
         /\ UNCHANGED <<mapWallet, setLockedCoins, setPermLocked, setUsedKeys,
                        fAvoidReuse, handedOff, requestedLocks>>
         /\ UNCHANGED otherThanCoins
    ELSE \E f \in FundTransaction(tx, options, TRUE) :
            FundResult("fundrawtransaction", tx, options, f, f.ret)

\* ConstructTransaction, FundTransaction, then FillPSBT without signing.
walletcreatefundedpsbt(tx, options, fill_ok) ==
    \E f \in FundTransaction(tx, options, tx.vin = {}) :
        FundResult("walletcreatefundedpsbt", tx, options, f,
                   IF f.ret = "ok" /\ ~fill_ok THEN "RPC_TRANSACTION_ERROR"
                   ELSE f.ret)

(***************************************************************************)
(* send                                                                    *)
(***************************************************************************)
\* Mutant: the transaction is committed whether or not it is complete.
SendCommits_unsigned(complete, add_to_wallet, psbt_opt_in) ==
    add_to_wallet /\ ~psbt_opt_in

\* "if (complete) { ... if (add_to_wallet && !psbt_opt_in) CommitTransaction"
SendCommits(complete, add_to_wallet, psbt_opt_in) ==
    complete /\ add_to_wallet /\ ~psbt_opt_in

\* send: the option checks, FundTransaction, FillPSBT with signing,
\* FinalizeAndExtractPSBT, and the result object.  fill_ok and complete are
\* what FillPSBT and FinalizeAndExtractPSBT answer; a locked wallet has no
\* key to sign with.  The handler reads options["add_to_wallet"] when the
\* replaceable option exists, a read that throws when it is absent.
send(tx, add_to_wallet, psbt, replaceable, camelCase, fill_ok, complete, accepted) ==
    LET psbt_opt_in == psbt = "true"
        add == add_to_wallet # "false"
        rbf == IF replaceable # "absent" THEN add_to_wallet = "true" ELSE FALSE
        request == [add_to_wallet |-> add, psbt_opt_in |-> psbt_opt_in,
                    replaceable |-> replaceable]
        Throw(ret) ==
            /\ opRet' = [OpResult("send", ret) EXCEPT !.request = request]
            /\ UNCHANGED <<mapWallet, handedOff, setUsedKeys>>
    IN /\ FreeTxIds # {}
       /\ complete => ~fLocked
       /\ IF camelCase THEN Throw("RPC_INVALID_PARAMETER")
          ELSE IF replaceable # "absent" /\ add_to_wallet = "absent"
          THEN Throw("std::runtime_error")
          ELSE \E f \in FundTransaction(tx, DefaultOptions, tx.vin = {}) :
                  IF f.ret # "ok" THEN Throw(f.ret)
                  ELSE IF ~fill_ok THEN Throw("RPC_TRANSACTION_ERROR")
                  ELSE /\ opRet' =
                            [OpResult("send", "ok") EXCEPT
                                !.request = request,
                                !.stages = <<"funded", "filled">>,
                                !.fSigned = complete,
                                !.complete = complete,
                                !.txid = IF complete THEN NewTxId ELSE 0,
                                !.result =
                                    (IF psbt_opt_in \/ ~complete \/ ~add
                                     THEN {"psbt"} ELSE {})
                                    \cup (IF complete THEN {"txid"} ELSE {})
                                    \cup (IF complete /\ ~(add /\ ~psbt_opt_in)
                                          THEN {"hex"} ELSE {})
                                    \cup {"complete"}]
                       /\ IF SendCommits(complete, add, psbt_opt_in)
                          THEN CommitTransaction(f.cr, rbf, accepted)
                          ELSE UNCHANGED <<mapWallet, handedOff, setUsedKeys>>
       /\ UNCHANGED <<setLockedCoins, setPermLocked, fAvoidReuse, requestedLocks>>
       /\ UNCHANGED otherThanCoins

(***************************************************************************)
(* abandontransaction                                                      *)
(***************************************************************************)
\* CWallet::AbandonTransaction: refuses a transaction that is in a block or
\* in the mempool and touches nothing; otherwise marks the transaction and
\* its in-wallet descendants as abandoned.
AbandonTransaction(hash) ==
    LET Spenders(S) == {h \in TxIds : /\ mapWallet[h].present
                                      /\ \E op \in mapWallet[h].vin : op[1] \in S}
        Closure[n \in 0..MaxTx] ==
            IF n = 0 THEN {hash} ELSE Closure[n - 1] \cup Spenders(Closure[n - 1])
    IN IF mapWallet[hash].depth > 0 \/ mapWallet[hash].in_mempool
       THEN [ok |-> FALSE, mapWallet |-> mapWallet]
       ELSE [ok |-> TRUE,
             mapWallet |-> [h \in TxIds |->
                               IF h \in Closure[MaxTx] /\ mapWallet[h].depth = 0
                               THEN [mapWallet[h] EXCEPT !.abandoned = TRUE]
                               ELSE mapWallet[h]]]

\* Mutant: the result of AbandonTransaction is not looked at.
AbandonRejected_ignored(ok) == FALSE

\* "if (!pwallet->AbandonTransaction(hash)) throw ..."
AbandonRejected(ok) == ~ok

\* abandontransaction under cs_wallet.  Both errors carry the code
\* RPC_INVALID_ADDRESS_OR_KEY; the message tells them apart.
abandontransaction(hash) ==
    /\ IF ~InMapWallet(hash) /\ ~(fParticlMode /\ HaveTx(hash))
       THEN /\ opRet' = [OpResult("abandontransaction", "RPC_INVALID_ADDRESS_OR_KEY")
                           EXCEPT !.hash = hash,
                                  !.msg = "Invalid or non-wallet transaction id"]
            /\ UNCHANGED mapWallet
       ELSE LET r == AbandonTransaction(hash)
            IN /\ mapWallet' = r.mapWallet
               /\ opRet' =
                     IF AbandonRejected(r.ok)
                     THEN [OpResult("abandontransaction", "RPC_INVALID_ADDRESS_OR_KEY")
                              EXCEPT !.hash = hash,
                                     !.msg = "Transaction not eligible for abandonment"]
                     ELSE [OpResult("abandontransaction", "null") EXCEPT !.hash = hash]
    /\ UNCHANGED <<setLockedCoins, setPermLocked, setUsedKeys, fAvoidReuse,
                   handedOff, requestedLocks>>
    /\ UNCHANGED otherThanCoins

(***************************************************************************)
(* feebumper and bumpfee / psbtbumpfee                                     *)
(***************************************************************************)
RelayIncrement == 1   \* the additional relay fee a replacement has to pay

NoBumpOptions == [kind |-> "null", confTarget |-> "absent", conf_target |-> "absent",
                  fee_rate |-> -1, replaceable |-> "absent",
                  estimate_mode |-> "absent"]

\* The options of bumpfee, in the order the handler reads them.
BumpOptionsError(options) ==
    IF options.kind = "null" THEN "ok"
    ELSE IF options.confTarget # "absent" /\ options.conf_target # "absent"
    THEN "RPC_INVALID_PARAMETER"
    ELSE IF (options.confTarget # "absent" \/ options.conf_target # "absent")
            /\ options.fee_rate # -1
    THEN "RPC_INVALID_PARAMETER"
    ELSE IF options.confTarget = "absent" /\ options.conf_target = "absent"
            /\ options.fee_rate # -1 /\ options.fee_rate <= 0
    THEN "RPC_INVALID_PARAMETER"
    ELSE IF options.estimate_mode = "invalid" THEN "RPC_INVALID_PARAMETER"
    ELSE "ok"

BumpReplaceable(options) ==
    IF options.kind = "null" \/ options.replaceable = "absent" THEN TRUE
    ELSE options.replaceable = "true"

NoBump(res, eligible) ==
    [res |-> res, eligible |-> eligible, old_fee |-> 0, new_fee |-> 0,
     vin |-> {}, vout |-> <<>>, auto |-> {}]

\* The eligibility gate: the original is in the wallet, unconfirmed,
\* replaceable, not bumped already, and none of its outputs is spent.
BumpPrecondition(hash) ==
    IF ~HaveTx(hash) THEN "INVALID_ADDRESS_OR_KEY"
    ELSE IF \E n \in 0..(NumVOuts(hash) - 1) : IsSpent(hash, n) THEN "INVALID_REQUEST"
    ELSE IF mapWallet[hash].depth # 0 THEN "INVALID_REQUEST"
    ELSE IF ~mapWallet[hash].replaceable THEN "INVALID_REQUEST"
    ELSE IF mapWallet[hash].replaced_by # 0 THEN "INVALID_REQUEST"
    ELSE IF mapWallet[hash].vin = {} THEN "INVALID_REQUEST"
    ELSE "OK"

\* The fees a replacement may pay: the explicit rate (one unit of size),
\* or an estimate, never less than the old fee plus the relay increment.
BumpFees(hash, fee_rate) ==
    LET old_fee == mapWallet[hash].nFee IN
    IF fee_rate # -1
    THEN (IF fee_rate >= old_fee + RelayIncrement THEN {fee_rate} ELSE {})
    ELSE {old_fee + RelayIncrement, old_fee + RelayIncrement + 1}

\* The index of the change output of the original, 0 if it has none.
ChangeIndex(hash) ==
    IF \E i \in 1..NumVOuts(hash) : mapWallet[hash].vout[i].mine
    THEN CHOOSE i \in 1..NumVOuts(hash) : mapWallet[hash].vout[i].mine
    ELSE 0

RemoveAt(seq, i) == SubSeq(seq, 1, i - 1) \o SubSeq(seq, i + 1, Len(seq))

\* The replacement that pays new_fee out of the change output of the original.
BumpFromChange(hash, new_fee) ==
    LET tx == mapWallet[hash]
        i == ChangeIndex(hash)
        delta == new_fee - tx.nFee
    IN IF i = 0 \/ tx.vout[i].value < delta THEN {}
       ELSE {[res |-> "OK", eligible |-> TRUE, old_fee |-> tx.nFee,
              new_fee |-> new_fee, vin |-> tx.vin, auto |-> {},
              vout |-> IF tx.vout[i].value = delta THEN RemoveAt(tx.vout, i)
                       ELSE [tx.vout EXCEPT ![i].value = tx.vout[i].value - delta]]}

\* The replacement that pays new_fee out of one more coin of the wallet.
BumpFromCoins(hash, new_fee) ==
    LET tx == mapWallet[hash]
        delta == new_fee - tx.nFee
    IN {[res |-> "OK", eligible |-> TRUE, old_fee |-> tx.nFee,
         new_fee |-> new_fee, vin |-> tx.vin \cup {c}, auto |-> {c},
         vout |-> IF ValueOf[c] = delta THEN tx.vout
                  ELSE Append(tx.vout, Out(ValueOf[c] - delta, TRUE, "C"))] :
           c \in {a \in AvailableCoins(TRUE, FALSE) : ValueOf[a] >= delta}}

\* feebumper::CreateRateBumpTransaction: a replacement at a higher fee
\* rate, which shrinks the change or adds inputs.
CreateRateBumpTransaction(hash, fee_rate) ==
    IF BumpPrecondition(hash) # "OK" THEN {NoBump(BumpPrecondition(hash), FALSE)}
    ELSE IF BumpFees(hash, fee_rate) = {} THEN {NoBump("INVALID_PARAMETER", TRUE)}
    ELSE {NoBump("WALLET_ERROR", TRUE)}
            \cup UNION {BumpFromChange(hash, f) \cup BumpFromCoins(hash, f) :
                           f \in BumpFees(hash, fee_rate)}

\* feebumper::CreateTotalBumpTransaction: a replacement at a higher total
\* fee, which requires a change output of sufficient size.
CreateTotalBumpTransaction(hash, fee_rate) ==
    IF BumpPrecondition(hash) # "OK" THEN {NoBump(BumpPrecondition(hash), FALSE)}
    ELSE IF BumpFees(hash, fee_rate) = {} THEN {NoBump("INVALID_PARAMETER", TRUE)}
    ELSE {NoBump("WALLET_ERROR", TRUE)}
            \cup UNION {BumpFromChange(hash, f) : f \in BumpFees(hash, fee_rate)}

\* feebumper::CommitTransaction: the replacement enters the ledger and is
\* handed to broadcast, and the original is marked as replaced by it.
BumpCommitTransaction(hash, b, replaceable, accepted) ==
    /\ mapWallet' = [mapWallet EXCEPT
                        ![NewTxId] = [NoTx EXCEPT !.present = TRUE, !.vin = b.vin,
                                         !.vout = b.vout, !.nFee = b.new_fee,
                                         !.replaceable = replaceable,
                                         !.in_mempool = accepted],
                        ![hash].replaced_by = NewTxId,
                        ![hash].in_mempool = (mapWallet[hash].in_mempool /\ ~accepted)]
    /\ handedOff' = handedOff \cup {NewTxId}
    /\ setUsedKeys' =
           IF fAvoidReuse
           THEN setUsedKeys \cup {OutputOf(op).addr : op \in {o \in b.vin : HaveOutput(o)}}
           ELSE setUsedKeys

\* The switch on a result of the feebumper that is not OK.
BumpError(res) ==
    CASE res = "INVALID_ADDRESS_OR_KEY" -> "RPC_INVALID_ADDRESS_OR_KEY"
      [] res = "INVALID_REQUEST" -> "RPC_INVALID_REQUEST"
      [] res = "INVALID_PARAMETER" -> "RPC_INVALID_PARAMETER"
      [] res = "WALLET_ERROR" -> "RPC_WALLET_ERROR"
      [] OTHER -> "RPC_MISC_ERROR"

\* Mutant: the replacement is committed whether or not it was signed.
SignFailed_ignored(signed) == FALSE

\* "if (!feebumper::SignTransaction(*pwallet, mtx)) throw ..."
SignFailed(signed) == ~signed

\* Mutant: the two fees are reported under each other's name.
BumpReport_swapped(old_fee, new_fee) ==
    [origfee |-> ValueFromAmount(new_fee), fee |-> ValueFromAmount(old_fee)]

\* result.pushKV("origfee", ...); result.pushKV("fee", ...)
BumpReport(old_fee, new_fee) ==
    [origfee |-> ValueFromAmount(old_fee), fee |-> ValueFromAmount(new_fee)]

BumpStages(b) == IF b.eligible THEN <<"Eligible">> ELSE <<>>

BumpRejected(op, hash, ret, b, signed, stages) ==
    /\ opRet' = [OpResult(op, ret) EXCEPT
                    !.hash = hash, !.fCreated = (b.res = "OK"),
                    !.fSigned = signed, !.auto = b.auto,
                    !.stages = Append(stages, "Rejected")]
    /\ UNCHANGED <<mapWallet, handedOff, setUsedKeys>>

BumpReturned(op, hash, ret, b, signed, stages) ==
    opRet' = [OpResult(op, ret) EXCEPT
                 !.hash = hash, !.txid = IF ret = "txid" THEN NewTxId ELSE 0,
                 !.fCreated = (b.res = "OK"), !.fSigned = signed,
                 !.auto = b.auto, !.stages = stages,
                 !.origfee = BumpReport(b.old_fee, b.new_fee).origfee,
                 !.fee = BumpReport(b.old_fee, b.new_fee).fee]

\* bumpfee and psbtbumpfee, from the options to the result, under cs_wallet.
bumpfee(want_psbt, hash, options) ==
    LET op == IF want_psbt THEN "psbtbumpfee" ELSE "bumpfee" IN
    /\ FreeTxIds # {}
    /\ IF BumpOptionsError(options) # "ok"
       THEN BumpRejected(op, hash, BumpOptionsError(options),
                         NoBump("none", FALSE), FALSE, <<>>)
       ELSE IF WalletUnlockNeeded
       THEN BumpRejected(op, hash, "RPC_WALLET_UNLOCK_NEEDED",
                         NoBump("none", FALSE), FALSE, <<>>)
       ELSE \E b \in (IF fParticlMode
                      THEN CreateTotalBumpTransaction(hash, options.fee_rate)
                      ELSE CreateRateBumpTransaction(hash, options.fee_rate)) :
              IF b.res # "OK"
              THEN BumpRejected(op, hash, BumpError(b.res), b, FALSE, BumpStages(b))
              ELSE IF want_psbt
              THEN /\ BumpReturned(op, hash, "psbt", b, FALSE, <<"Eligible", "Built">>)
                   /\ UNCHANGED <<mapWallet, handedOff, setUsedKeys>>
              ELSE \E signed \in BOOLEAN :
                     IF SignFailed(signed)
                     THEN BumpRejected(op, hash, "RPC_WALLET_ERROR", b, signed,
                                       <<"Eligible", "Built">>)
                     ELSE \E committed \in BOOLEAN, accepted \in BOOLEAN :
                            IF ~committed
                            THEN BumpRejected(op, hash, "RPC_WALLET_ERROR", b, signed,
                                              <<"Eligible", "Built", "Signed">>)
                            ELSE /\ BumpCommitTransaction(hash, b,
                                        BumpReplaceable(options), accepted)
                                 /\ BumpReturned(op, hash, "txid", b, signed,
                                        <<"Eligible", "Built", "Signed", "Committed">>)
    /\ UNCHANGED <<setLockedCoins, setPermLocked, fAvoidReuse, requestedLocks>>
    /\ UNCHANGED otherThanCoins

(***************************************************************************)
(* listunspent                                                             *)
(***************************************************************************)
IdleList == [pc |-> "idle", vecOutputs |-> {}, destinations |-> {},
             nMinDepth |-> 0, include_unsafe |-> FALSE]
NoListing == [returned |-> FALSE, results |-> {}, atEnumeration |-> {},
              atRead |-> {}]

\* The COutput that AvailableCoins returns for a coin.
COutput(op) == [op |-> op, nDepth |-> mapWallet[op[1]].depth, fSafe |-> SafeTx(op[1])]

\* The first block, under its own LOCK(cs_wallet): AvailableCoins within
\* the depth bounds; m_avoid_address_reuse is false.
ListCoins(nMinDepth, include_unsafe) ==
    {COutput(op) : op \in {o \in AvailableCoins(~include_unsafe, FALSE) :
                              mapWallet[o[1]].depth >= nMinDepth}}

\* The body of the loop over vecOutputs, under the second LOCK(cs_wallet).
ListEntry(out) ==
    [txid |-> out.op[1], vout |-> out.op[2],
     address |-> OutputOf(out.op).addr,
     amount |-> OutputOf(out.op).value,
     confirmations |-> out.nDepth,
     reused |-> fAvoidReuse /\ IsSpentKey(out.op[1], out.op[2]),
     safe |-> out.fSafe]

ListResults(vecOutputs, destinations) ==
    {ListEntry(out) : out \in {o \in vecOutputs :
                                  destinations = {}
                                  \/ OutputOf(o.op).addr \in destinations}}

\* Up to the end of the block that holds cs_wallet for AvailableCoins.
ListUnspentEnumerate(t, nMinDepth, destinations, include_unsafe) ==
    /\ lu[t].pc = "idle"
    /\ lu' = [lu EXCEPT ![t] = [pc |-> "read",
                                vecOutputs |-> ListCoins(nMinDepth, include_unsafe),
                                destinations |-> destinations,
                                nMinDepth |-> nMinDepth,
                                include_unsafe |-> include_unsafe]]
    /\ luRet' = [luRet EXCEPT ![t] =
                    [NoListing EXCEPT !.atEnumeration =
                        ListResults(ListCoins(nMinDepth, include_unsafe), destinations)]]
    /\ UNCHANGED otherThanList

\* From the second LOCK(cs_wallet) to the return.
ListUnspentRead(t) ==
    /\ lu[t].pc = "read"
    /\ luRet' = [luRet EXCEPT ![t] =
                    [returned |-> TRUE,
                     results |-> ListResults(lu[t].vecOutputs, lu[t].destinations),
                     atEnumeration |-> luRet[t].atEnumeration,
                     atRead |-> ListResults(
                         ListCoins(lu[t].nMinDepth, lu[t].include_unsafe),
                         lu[t].destinations)]]
    /\ lu' = [lu EXCEPT ![t] = IdleList]
    /\ UNCHANGED otherThanList

InitList ==
    /\ lu = [t \in Threads |-> IdleList]
    /\ luRet = [t \in Threads |-> NoListing]

(***************************************************************************)
(* settxfee                                                                *)
(***************************************************************************)
MaxRate == 5      \* fee rates and fee bounds range over 0..MaxRate

\* Mutant: the rate is not compared with the wallet's maximum.
SettxfeeRejects_noMax(tx_fee_rate, max_tx_fee_rate) ==
    /\ tx_fee_rate # 0
    /\ (tx_fee_rate < relayMinFee \/ tx_fee_rate < m_min_fee)

\* The chain of comparisons of settxfee: a rate of zero is automatic
\* selection, any other rate has to lie within the three bounds.
SettxfeeRejects(tx_fee_rate, max_tx_fee_rate) ==
    /\ tx_fee_rate # 0
    /\ \/ tx_fee_rate < relayMinFee
       \/ tx_fee_rate < m_min_fee
       \/ tx_fee_rate > max_tx_fee_rate

\* settxfee under cs_wallet; CFeeRate(fee, 1000) is fee * 1000 / 1000.
settxfee(nAmount) ==
    LET tx_fee_rate == (nAmount * 1000) \div 1000
        max_tx_fee_rate == (m_default_max_tx_fee * 1000) \div 1000
    IN /\ IF SettxfeeRejects(tx_fee_rate, max_tx_fee_rate)
          THEN /\ opRet' = [OpResult("settxfee", "RPC_INVALID_PARAMETER") EXCEPT
                               !.amount = nAmount]
               /\ UNCHANGED m_pay_tx_fee
          ELSE /\ opRet' = [OpResult("settxfee", "true") EXCEPT !.amount = nAmount]
               /\ m_pay_tx_fee' = tx_fee_rate
       /\ UNCHANGED <<m_min_fee, m_default_max_tx_fee, relayMinFee>>
       /\ UNCHANGED <<mapWallet, setLockedCoins, setPermLocked, setUsedKeys,
                      fAvoidReuse, handedOff, requestedLocks>>
       /\ UNCHANGED <<lockVars, rescanVars, listVars, watchVars>>

WALLET_BTC_KB_TO_SAT_B == COIN \div 1000

\* SetFeeEstimateMode on a fresh CCoinControl: the error it throws, or the
\* fee rate it leaves on the coin control (-1: m_feerate stays unset).
\* estimate_param is -1 for a null parameter, else the CAmount that
\* AmountFromValue returns; a confirmation target has to be 1 or more.
SetFeeEstimateMode(estimate_mode, estimate_param) ==
    LET Throw == [ret |-> "RPC_INVALID_PARAMETER", m_feerate |-> -1,
                  fOverrideFeeRate |-> FALSE]
    IN IF estimate_mode = "invalid" THEN Throw
       ELSE IF estimate_mode \in {"BTC_KB", "SAT_B"}
       THEN IF estimate_param = -1 THEN Throw
            ELSE [ret |-> "ok",
                  m_feerate |-> IF estimate_mode = "SAT_B"
                                THEN estimate_param \div WALLET_BTC_KB_TO_SAT_B
                                ELSE estimate_param,
                  fOverrideFeeRate |-> FALSE]
       ELSE IF estimate_param # -1 /\ estimate_param < 1 THEN Throw
       ELSE [ret |-> "ok", m_feerate |-> -1, fOverrideFeeRate |-> FALSE]

\* The coin control an explicit rate leaves at each entry point: the
\* feeRate option of FundTransaction, the fee_rate option of bumpfee, and
\* conf_target under the BTC_KB and SAT_B estimate modes.
CoinControlFee(entry, rate) ==
    CASE entry = "feeRate" ->
            [ret |-> "ok", m_feerate |-> rate, fOverrideFeeRate |-> TRUE]
      [] entry = "fee_rate" ->
            LET err == BumpOptionsError([NoBumpOptions EXCEPT !.kind = "object",
                                                              !.fee_rate = rate])
            IN [ret |-> err, m_feerate |-> IF err = "ok" THEN rate ELSE -1,
                fOverrideFeeRate |-> FALSE]
      [] OTHER -> SetFeeEstimateMode(entry, rate)

\* The options of a request are read into its coin control.
ReadFeeOptions(entry, rate) ==
    /\ opRet' = [OpResult(entry, CoinControlFee(entry, rate).ret) EXCEPT
                    !.amount = rate,
                    !.m_feerate = CoinControlFee(entry, rate).m_feerate,
                    !.fOverrideFeeRate = CoinControlFee(entry, rate).fOverrideFeeRate]
    /\ UNCHANGED <<mapWallet, setLockedCoins, setPermLocked, setUsedKeys,
                   fAvoidReuse, handedOff, requestedLocks>>
    /\ UNCHANGED <<lockVars, rescanVars, listVars, feeVars, watchVars>>

(***************************************************************************)
(* getbalances                                                             *)
(***************************************************************************)
Maturity == 1     \* blocks on top of a coinbase or coinstake before it matures

\* The tier of the outputs of a wallet transaction: "immature" and "staked"
\* below the maturity depth, "trusted" when confirmed or safe in the
\* mempool, "untrusted_pending" when in the mempool from someone else.
TxTier(hash) ==
    LET wtx == mapWallet[hash]
    IN IF ~wtx.present \/ wtx.abandoned THEN "none"
       ELSE IF wtx.kind # "normal"
       THEN IF wtx.depth <= 0 THEN "none"
            ELSE IF wtx.depth > Maturity THEN "trusted"
            ELSE IF wtx.kind = "coinbase" THEN "immature" ELSE "staked"
       ELSE IF wtx.depth > 0 THEN "trusted"
       ELSE IF wtx.depth = 0 /\ wtx.in_mempool
       THEN IF SafeTx(hash) THEN "trusted" ELSE "untrusted_pending"
       ELSE "none"

\* CHDWallet::GetBalances(bal, avoid_reuse): every unspent output of the
\* wallet, summed by owner, output type and tier; with avoid_reuse, in a
\* wallet that has the flag, without the trusted and pending outputs at
\* addresses already spent from.
GetBalances(avoid_reuse) ==
    LET Credit(watchonly, type, tier) ==
            SumOver({op \in OutPoints :
                        /\ HaveOutput(op)
                        /\ ~IsSpent(op[1], op[2])
                        /\ OutputOf(op).type = type
                        /\ TxTier(op[1]) = tier
                        /\ IF watchonly
                           THEN ~OutputOf(op).mine /\ OutputOf(op).addr \in setWatchOnly
                           ELSE OutputOf(op).mine
                        /\ (avoid_reuse /\ fAvoidReuse /\ ~watchonly
                              /\ tier \in {"trusted", "untrusted_pending"})
                               => ~IsSpentKey(op[1], op[2])},
                    ValueOf)
    IN [nPart |-> Credit(FALSE, "standard", "trusted"),
        nPartUnconf |-> Credit(FALSE, "standard", "untrusted_pending"),
        nPartImmature |-> Credit(FALSE, "standard", "immature"),
        nPartStaked |-> Credit(FALSE, "standard", "staked"),
        nBlind |-> Credit(FALSE, "blind", "trusted"),
        nBlindUnconf |-> Credit(FALSE, "blind", "untrusted_pending"),
        nAnon |-> Credit(FALSE, "anon", "trusted"),
        nAnonImmature |-> Credit(FALSE, "anon", "immature"),
        nAnonUnconf |-> Credit(FALSE, "anon", "untrusted_pending"),
        nPartWatchOnly |-> Credit(TRUE, "standard", "trusted"),
        nPartWatchOnlyUnconf |-> Credit(TRUE, "standard", "untrusted_pending"),
        nPartWatchOnlyImmature |-> Credit(TRUE, "standard", "immature"),
        nPartWatchOnlyStaked |-> Credit(TRUE, "standard", "staked"),
        nBlindWatchOnly |-> Credit(TRUE, "blind", "trusted"),
        nBlindWatchOnlyUnconf |-> Credit(TRUE, "blind", "untrusted_pending")]

\* Mutant: the filtered pending balance is not taken off.
UsedTier_pendingKept(full_trusted, full_pending, trusted, pending) ==
    full_trusted + full_pending - trusted

\* The balance at reused addresses: the total less the un-reused balance.
UsedTier(full_trusted, full_pending, trusted, pending) ==
    full_trusted + full_pending - trusted - pending

\* getbalances under cs_wallet: the object it returns, as a function from
\* the keys pushed to their values.
getbalances ==
    LET bal == GetBalances(TRUE)
        full_bal == GetBalances(FALSE)
        hd_mine ==
            [k \in {"trusted", "untrusted_pending", "immature", "staked",
                    "blind_trusted", "blind_untrusted_pending", "anon_trusted",
                    "anon_immature", "anon_untrusted_pending"}
                   \cup (IF fAvoidReuse THEN {"used", "blind_used"} ELSE {}) |->
                ValueFromAmount(
                    CASE k = "trusted" -> bal.nPart
                      [] k = "untrusted_pending" -> bal.nPartUnconf
                      [] k = "immature" -> bal.nPartImmature
                      [] k = "staked" -> bal.nPartStaked
                      [] k = "used" ->
                           UsedTier(full_bal.nPart, full_bal.nPartUnconf,
                                    bal.nPart, bal.nPartUnconf)
                      [] k = "blind_used" ->
                           UsedTier(full_bal.nBlind, full_bal.nBlindUnconf,
                                    bal.nBlind, bal.nBlindUnconf)
                      [] k = "blind_trusted" -> bal.nBlind
                      [] k = "blind_untrusted_pending" -> bal.nBlindUnconf
                      [] k = "anon_trusted" -> bal.nAnon
                      [] k = "anon_immature" -> bal.nAnonImmature
                      [] OTHER -> bal.nAnonUnconf)]
        hd_watching ==
            \/ bal.nPartWatchOnly > 0 \/ bal.nPartWatchOnlyUnconf > 0
            \/ bal.nPartWatchOnlyStaked > 0
            \/ bal.nBlindWatchOnly > 0 \/ bal.nBlindWatchOnlyUnconf > 0
        hd_watchonly ==
            [k \in {"trusted", "untrusted_pending", "immature", "staked",
                    "blind_trusted", "blind_untrusted_pending"} |->
                ValueFromAmount(
                    CASE k = "trusted" -> bal.nPartWatchOnly
                      [] k = "untrusted_pending" -> bal.nPartWatchOnlyUnconf
                      [] k = "immature" -> bal.nPartWatchOnlyImmature
                      [] k = "staked" -> bal.nPartWatchOnlyStaked
                      [] k = "blind_trusted" -> bal.nBlindWatchOnly
                      [] OTHER -> bal.nBlindWatchOnlyUnconf)]
        \* CWallet::GetBalance(0, avoid_reuse): the sums of the plain class
        \* under the names of CWallet::Balance
        GetBalance(avoid_reuse) ==
            [m_mine_trusted |-> GetBalances(avoid_reuse).nPart,
             m_mine_untrusted_pending |-> GetBalances(avoid_reuse).nPartUnconf,
             m_mine_immature |-> GetBalances(avoid_reuse).nPartImmature,
             m_watchonly_trusted |-> GetBalances(avoid_reuse).nPartWatchOnly,
             m_watchonly_untrusted_pending |->
                 GetBalances(avoid_reuse).nPartWatchOnlyUnconf,
             m_watchonly_immature |-> GetBalances(avoid_reuse).nPartWatchOnlyImmature]
        b == GetBalance(TRUE)
        full_b == GetBalance(FALSE)
        mine ==
            [k \in {"trusted", "untrusted_pending", "immature"}
                   \cup (IF fAvoidReuse THEN {"used"} ELSE {}) |->
                ValueFromAmount(
                    CASE k = "trusted" -> b.m_mine_trusted
                      [] k = "untrusted_pending" -> b.m_mine_untrusted_pending
                      [] k = "immature" -> b.m_mine_immature
                      [] OTHER ->
                           UsedTier(full_b.m_mine_trusted,
                                    full_b.m_mine_untrusted_pending,
                                    b.m_mine_trusted, b.m_mine_untrusted_pending))]
        \* spk_man->HaveWatchOnly(): some script is watched
        watching == setWatchOnly # {}
        watchonly ==
            [k \in {"trusted", "untrusted_pending", "immature"} |->
                ValueFromAmount(
                    CASE k = "trusted" -> b.m_watchonly_trusted
                      [] k = "untrusted_pending" -> b.m_watchonly_untrusted_pending
                      [] OTHER -> b.m_watchonly_immature)]
        balances ==
            IF fParticlMode
            THEN [k \in {"mine"} \cup (IF hd_watching THEN {"watchonly"} ELSE {}) |->
                     IF k = "mine" THEN hd_mine ELSE hd_watchonly]
            ELSE [k \in {"mine"} \cup (IF watching THEN {"watchonly"} ELSE {}) |->
                     IF k = "mine" THEN mine ELSE watchonly]
    IN /\ opRet' = [OpResult("getbalances", "ok") EXCEPT !.balances = balances]
       /\ UNCHANGED <<mapWallet, setLockedCoins, setPermLocked, setUsedKeys,
                      fAvoidReuse, handedOff, requestedLocks>>
       /\ UNCHANGED otherThanCoins

(***************************************************************************)
(* gettransaction, listtransactions                                        *)
(***************************************************************************)
\* CWallet::GetConflicts(txid): for every outpoint the transaction spends
\* that more than one wallet transaction spends, all of its spenders.
GetConflicts(txid) ==
    IF ~HaveTx(txid) THEN {}
    ELSE UNION {LET spends == {h \in TxIds : HaveTx(h) /\ prevout \in mapWallet[h].vin}
                IN IF Cardinality(spends) <= 1 THEN {} ELSE spends :
                    prevout \in mapWallet[txid].vin}

\* wtx.GetConflicts() is GetConflicts(wtx.GetHash()) less the hash itself.
WalletTxToJSON(hash) ==
    [txid |-> hash, by |-> "WalletTxToJSON", vout |-> -1,
     walletconflicts |-> GetConflicts(hash) \ {hash}]

RecordTxToJSON(hash) ==
    [txid |-> hash, by |-> "RecordTxToJSON", vout |-> -1,
     walletconflicts |-> GetConflicts(hash)]

\* One entry for each output of the record that is the wallet's own or
\* that the wallet has paid, in the order of rtx.vout.
ListRecord(hash) ==
    LET setconflicts == GetConflicts(hash) \ {hash}
        listed == SelectSeq([i \in 1..Len(mapWallet[hash].vout) |-> i],
                            LAMBDA i : \/ mapWallet[hash].vout[i].mine
                                       \/ mapWallet[hash].vin # {})
    IN [j \in 1..Len(listed) |->
           [txid |-> hash, by |-> "ListRecord", vout |-> listed[j] - 1,
            walletconflicts |-> setconflicts]]

\* gettransaction under cs_wallet: the entry of the transaction, from the
\* plain ledger first, then from the records of a Particl wallet.
gettransaction(hash) ==
    /\ opRet' =
          IF InMapWallet(hash)
          THEN [OpResult("gettransaction", "ok") EXCEPT
                   !.hash = hash, !.entries = {WalletTxToJSON(hash)}]
          ELSE IF fParticlMode /\ InMapRecords(hash)
          THEN [OpResult("gettransaction", "ok") EXCEPT
                   !.hash = hash,
                   !.entries = {RecordTxToJSON(hash)}
                                  \cup {ListRecord(hash)[i] :
                                           i \in 1..Len(ListRecord(hash))}]
          ELSE [OpResult("gettransaction", "RPC_INVALID_ADDRESS_OR_KEY") EXCEPT
                   !.hash = hash]
    /\ UNCHANGED <<mapWallet, setLockedCoins, setPermLocked, setUsedKeys,
                   fAvoidReuse, handedOff, requestedLocks>>
    /\ UNCHANGED otherThanCoins

SizeBits == 16    \* width of size_t, scaled down from 64

\* listtransactions: ListTransactions with fLong on the plain transactions,
\* newest first, until nCount + nFrom entries are collected, reversed; in a
\* Particl wallet the records, collected the same way, are inserted by time
\* and the array is trimmed by nFrom and nCount.  A transaction's time is
\* its number.  UniValue::erase with a range that is no range is undefined
\* here: it leaves the array alone or the call faults.
listtransactions(nCount, nFrom) ==
    LET ListTransactions(hash) ==
            LET listed == SelectSeq([i \in 1..Len(mapWallet[hash].vout) |-> i],
                                    LAMBDA i : \/ mapWallet[hash].vout[i].mine
                                               \/ mapWallet[hash].vin # {})
            IN [j \in 1..Len(listed) |->
                   [WalletTxToJSON(hash) EXCEPT !.by = "ListTransactions",
                                                !.vout = listed[j] - 1]]
        RECURSIVE NewestFirst(_)
        NewestFirst(S) ==
            IF S = {} THEN <<>>
            ELSE LET h == CHOOSE h \in S : \A g \in S : g <= h
                 IN <<h>> \o NewestFirst(S \ {h})
        RECURSIVE Collect(_, _, _)
        Collect(txOrdered, ret, records) ==
            IF txOrdered = <<>> THEN ret
            ELSE LET more == ret \o (IF records THEN ListRecord(Head(txOrdered))
                                     ELSE ListTransactions(Head(txOrdered)))
                 IN IF Len(more) >= nCount + nFrom THEN more
                    ELSE Collect(Tail(txOrdered), more, records)
        reversed(seq) == [i \in 1..Len(seq) |-> seq[Len(seq) + 1 - i]]
        plain == reversed(Collect(NewestFirst({h \in TxIds : InMapWallet(h)}),
                                  <<>>, FALSE))
        retRecords == Collect(NewestFirst({h \in TxIds : InMapRecords(h)}),
                              <<>>, TRUE)
        RECURSIVE Merge(_, _, _)
        Merge(ret, i, nSearchStart) ==
            IF i < 1 THEN ret
            ELSE LET later == {k \in nSearchStart..Len(ret) :
                                  ret[k].txid > retRecords[i].txid}
                 IN IF later = {}
                    THEN Merge(Append(ret, retRecords[i]), i - 1,
                               IF nSearchStart <= Len(ret) THEN Len(ret)
                               ELSE nSearchStart)
                    ELSE LET k == CHOOSE k \in later : \A l \in later : k <= l
                         IN Merge(SubSeq(ret, 1, k - 1) \o <<retRecords[i]>>
                                      \o SubSeq(ret, k, Len(ret)),
                                  i - 1, k)
        merged == Merge(plain, Len(retRecords), 1)
        \* std::max((size_t)0, ret.size() - nFrom) in size_t arithmetic
        from == (Len(merged) - nFrom) % (2 ^ SizeBits)
        skipping == nFrom > 0 /\ Len(merged) > 0
        skipped == IF skipping /\ from <= Len(merged)
                   THEN SubSeq(merged, 1, from) ELSE merged
        trimmed == IF Len(skipped) > nCount
                   THEN SubSeq(skipped, Len(skipped) - nCount + 1, Len(skipped))
                   ELSE skipped
        Returned(code, ret, collected) ==
            [OpResult("listtransactions", code) EXCEPT
                !.list = ret,
                !.entries = {ret[i] : i \in 1..Len(ret)},
                !.listing = [nCount |-> nCount, nFrom |-> nFrom,
                             collected |-> collected,
                             from |-> IF fParticlMode /\ skipping THEN from ELSE 0]]
    IN /\ IF nCount < 0 \/ nFrom < 0
          THEN opRet' = Returned("RPC_INVALID_PARAMETER", <<>>, 0)
          ELSE IF ~fParticlMode
          THEN opRet' = Returned("ok", plain, Len(plain))
          ELSE IF skipping /\ from > Len(merged)
          THEN \/ opRet' = Returned("ok", trimmed, Len(merged))
               \/ opRet' = Returned("fault", <<>>, Len(merged))
          ELSE opRet' = Returned("ok", trimmed, Len(merged))
       /\ UNCHANGED <<mapWallet, setLockedCoins, setPermLocked, setUsedKeys,
                      fAvoidReuse, handedOff, requestedLocks>>
       /\ UNCHANGED otherThanCoins

\* The fee policy the other operations run under: automatic selection.
InitFee ==
    /\ m_pay_tx_fee = 0
    /\ m_min_fee = 1
    /\ m_default_max_tx_fee = MaxRate
    /\ relayMinFee = 1

\* Any bounds, and a configured rate that is automatic or within them.
InitFeePolicy ==
    /\ InitLock
    /\ ~fCrypted /\ ~fParticlMode
    /\ InitRescan
    /\ InitCoins
    /\ InitList
    /\ relayMinFee \in 1..2
    /\ m_min_fee \in {1, 3}
    /\ m_default_max_tx_fee \in {2, MaxRate - 1}
    /\ m_pay_tx_fee \in {r \in 0..MaxRate :
                            \/ r = 0
                            \/ /\ r >= relayMinFee
                               /\ r >= m_min_fee
                               /\ r <= m_default_max_tx_fee}

Init == InitLock /\ InitRescan /\ InitCoins /\ InitList /\ InitFee

InitOpenWallet ==
    /\ InitKeys
    /\ InitRescan
    /\ InitLedger
    /\ fAvoidReuse \in BOOLEAN
    /\ InitList
    /\ InitFee

\* A wallet that signs, without the avoid_reuse flag.
InitSigningWallet ==
    /\ InitKeys
    /\ InitRescan
    /\ InitCoins
    /\ InitList
    /\ InitFee

\* Operations that ask nothing of the keys: an unencrypted wallet.
InitListing ==
    /\ InitLock
    /\ ~fCrypted
    /\ InitRescan
    /\ InitLedger
    /\ fAvoidReuse \in BOOLEAN
    /\ InitList
    /\ InitFee

NextLock ==
    \/ \E t \in Threads, sleep \in SleepInputs, staking \in BOOLEAN, pass \in Passphrases :
           WpEnter(t, sleep, staking, pass)
    \/ \E t \in Threads : WpUnlock(t)
    \/ \E t \in Threads : WpStamp(t)
    \/ \E t \in Threads : WpSchedule(t)
    \/ \E t \in Threads : WpZero(t)
    \/ \E t \in Threads : walletlock(t)
    \/ TimerFire
    \/ Tick

SpecLock == Init /\ [][NextLock]_vars

\* Time passes, the timer thread runs a callback that is due, and a call of
\* walletpassphrase that has passed its checks runs to its return.
SpecRelock ==
    /\ Init
    /\ [][NextLock]_vars
    /\ WF_vars(Tick)
    /\ WF_vars(TimerFire)
    /\ \A t \in Threads :
          WF_vars(WpUnlock(t) \/ WpStamp(t) \/ WpSchedule(t) \/ WpZero(t))

NextRescan ==
    \/ \E t \in Threads, start \in HeightParams, stop \in HeightParams :
           RsReserve(t, start, stop)
    \/ \E t \in Threads, hasBlocks \in BOOLEAN : RsValidate(t, hasBlocks)
    \/ \E t \in Threads, status \in ScanStatus : RsScan(t, status)

SpecRescan == Init /\ [][NextRescan]_vars

MaxOutputs == 2   \* length of the "transactions" array of lockunspent

NullTransactions == [null |-> TRUE, v |-> <<>>]
TransactionsParams ==
    {NullTransactions}
        \cup {[null |-> FALSE, v |-> v] :
                 v \in UNION {[1..n -> OutputRefs] : n \in 0..MaxOutputs}}
PermanentParams == {"null", "true", "illtyped"}

NextLocks ==
    \/ \E fUnlock \in BOOLEAN, transactions \in TransactionsParams,
          permanent \in PermanentParams :
           lockunspent(fUnlock, transactions, permanent)
    \/ listlockunspent

\* lockunspent reads nothing of the encryption state: an unencrypted wallet.
InitUnencrypted ==
    /\ InitLock
    /\ ~fCrypted
    /\ InitRescan
    /\ InitCoins
    /\ InitList
    /\ InitFee

SpecLocks == InitUnencrypted /\ [][NextLocks]_vars

RawTx(vin, vout) == [decodes |-> TRUE, vin |-> vin, vout |-> vout]
RawTxs ==
    {[decodes |-> FALSE, vin |-> {}, vout |-> <<>>]}
        \cup {RawTx({}, vout) :
                 vout \in {<<>>, <<Recipient("X", 2, FALSE)>>,
                           <<Recipient("X", 20, FALSE)>>}}
        \cup {RawTx({<<1, 0>>}, <<Recipient("X", amount, FALSE)>>) :
                 amount \in {2, 20}}
        \cup {RawTx({<<UnknownTx, 0>>}, <<Recipient("X", 2, FALSE)>>)}

OptionVariants ==
    {DefaultOptions,
     [DefaultOptions EXCEPT !.kind = "null"],
     [DefaultOptions EXCEPT !.kind = "bool"],
     [DefaultOptions EXCEPT !.add_inputs = "false"],
     [DefaultOptions EXCEPT !.change_address = "valid"],
     [DefaultOptions EXCEPT !.change_address = "invalid"],
     [DefaultOptions EXCEPT !.change_position = 0],
     [DefaultOptions EXCEPT !.change_position = 3],
     [DefaultOptions EXCEPT !.change_type = "valid"],
     [DefaultOptions EXCEPT !.change_type = "unknown"],
     [DefaultOptions EXCEPT !.change_type = "valid", !.change_address = "valid"],
     [DefaultOptions EXCEPT !.feeRate = "set"],
     [DefaultOptions EXCEPT !.feeRate = "set", !.conf_target = "set"],
     [DefaultOptions EXCEPT !.feeRate = "set", !.estimate_mode = "valid"],
     [DefaultOptions EXCEPT !.estimate_mode = "invalid"],
     [DefaultOptions EXCEPT !.subtractFeeFromOutputs = <<0>>],
     [DefaultOptions EXCEPT !.subtractFeeFromOutputs = <<0, 0>>],
     [DefaultOptions EXCEPT !.subtractFeeFromOutputs = <<-1>>],
     [DefaultOptions EXCEPT !.subtractFeeFromOutputs = <<1>>]}

\* Every variant without lockUnspents, and lockUnspents set or cleared
\* with the options that decide which inputs are added and whether the
\* call fails after the options have been read.
FundOptions ==
    OptionVariants
        \cup {[o EXCEPT !.lockUnspents = l] :
                 o \in {DefaultOptions,
                        [DefaultOptions EXCEPT !.add_inputs = "false"],
                        [DefaultOptions EXCEPT !.change_position = 3],
                        [DefaultOptions EXCEPT !.subtractFeeFromOutputs = <<0>>]},
                 l \in {"true", "false"}}

\* One-output lock requests on the coins of the initial ledger.
SingleOutputParams ==
    {NullTransactions}
        \cup {[null |-> FALSE, v |-> <<[txid |-> op[1], vout |-> op[2]]>>] :
                 op \in {<<1, 0>>, <<2, 0>>, <<3, 1>>}}

NextFund ==
    \/ \E tx \in RawTxs, options \in FundOptions : fundrawtransaction(tx, options)
    \/ \E tx \in RawTxs, options \in FundOptions, fill_ok \in BOOLEAN :
           walletcreatefundedpsbt(tx, options, fill_ok)
    \/ \E fUnlock \in BOOLEAN, transactions \in SingleOutputParams :
           lockunspent(fUnlock, transactions, "null")

SpecFund == InitListing /\ [][NextFund]_vars

SendAddresses == {"X", "?"}   \* "?" does not decode to a destination
SendAmounts == {4, 20}

NextSend ==
    \/ \E address \in SendAddresses, amount \in SendAmounts,
          fSubtractFeeFromAmount \in BOOLEAN, avoid_param \in AvoidReuseParams :
           sendtoaddress(address, amount, fSubtractFeeFromAmount, FALSE, avoid_param)
    \/ \E t \in Threads : walletlock(t)

SpecSend == InitOpenWallet /\ [][NextSend]_vars

BumpOptions ==
    {NoBumpOptions,
     [NoBumpOptions EXCEPT !.kind = "object", !.conf_target = "set"],
     [NoBumpOptions EXCEPT !.kind = "object", !.conf_target = "set",
                           !.confTarget = "set"],
     [NoBumpOptions EXCEPT !.kind = "object", !.conf_target = "set", !.fee_rate = 3],
     [NoBumpOptions EXCEPT !.kind = "object", !.fee_rate = 0],
     [NoBumpOptions EXCEPT !.kind = "object", !.fee_rate = 1],
     [NoBumpOptions EXCEPT !.kind = "object", !.fee_rate = 3],
     [NoBumpOptions EXCEPT !.kind = "object", !.replaceable = "false"],
     [NoBumpOptions EXCEPT !.kind = "object", !.estimate_mode = "invalid"]}

NextBump ==
    \/ \E want_psbt \in BOOLEAN, hash \in TxIds \cup {UnknownTx},
          options \in BumpOptions :
           bumpfee(want_psbt, hash, options)
    \/ \E t \in {1} : walletlock(t)

SpecBump == InitSigningWallet /\ [][NextBump]_vars

ListAmounts == {4}   \* amounts sent between the other operations

SelectTxs ==
    {RawTx({}, <<Recipient("X", 2, FALSE)>>),
     RawTx({<<1, 0>>}, <<Recipient("X", 6, FALSE)>>)}
SelectOptions ==
    {DefaultOptions,
     [DefaultOptions EXCEPT !.lockUnspents = "true"],
     [DefaultOptions EXCEPT !.lockUnspents = "false"],
     [DefaultOptions EXCEPT !.lockUnspents = "true", !.add_inputs = "false"]}

NextSelect ==
    \/ \E fUnlock \in BOOLEAN, transactions \in SingleOutputParams :
           lockunspent(fUnlock, transactions, "null")
    \/ \E tx \in SelectTxs, options \in SelectOptions : fundrawtransaction(tx, options)
    \/ \E tx \in SelectTxs, options \in SelectOptions :
           walletcreatefundedpsbt(tx, options, TRUE)
    \/ \E amount \in ListAmounts :
           sendtoaddress("X", amount, FALSE, FALSE, "null")

SpecSelect == InitListing /\ [][NextSelect]_vars


\* Every add_to_wallet and psbt option with a complete and an incomplete
\* signature, and one request for each way to fail before the result.
NextBuild ==
    \/ \E amount \in SendAmounts, add_to_wallet \in {"absent", "true", "false"},
          psbt \in {"absent", "true", "false"}, complete \in BOOLEAN :
           send(RawTx({}, <<Recipient("X", amount, FALSE)>>), add_to_wallet, psbt,
                "absent", FALSE, TRUE, complete, TRUE)
    \/ \E add_to_wallet \in {"absent", "true"}, camelCase \in BOOLEAN,
          fill_ok \in BOOLEAN :
           send(RawTx({}, <<Recipient("X", 4, FALSE)>>), add_to_wallet, "absent",
                "false", camelCase, fill_ok, TRUE, TRUE)
    \/ \E t \in {1} : walletlock(t)

SpecBuild == InitSigningWallet /\ [][NextBuild]_vars

\* Requests of one and two recipients: valid, of amount zero or below,
\* twice to one address, to two spellings of one address, to no address.
NextPay ==
    \/ \E first \in {"X"}, a1 \in {-1, 0, 7}, second \in {"none", "B", "X", "x", "?"},
          a2 \in {0, 2}, subtract \in {{"X"}} :
           sendmany(IF second = "none"
                    THEN <<[address |-> first, amount |-> a1]>>
                    ELSE <<[address |-> first, amount |-> a1],
                           [address |-> second, amount |-> a2]>>,
                    subtract, FALSE)
    \/ \E address \in SendAddresses, amount \in {-1, 0, 9} :
           sendtoaddress(address, amount, FALSE, FALSE, "null")

SpecPay == InitUnencrypted /\ [][NextPay]_vars

\* A request for each way the policy can be malformed, alone and next to
\* an option that does not decode, and requests that lock what they select.
NextPolicy ==
    \/ \E tx \in SelectTxs,
          options \in OptionVariants \cup
              {[DefaultOptions EXCEPT !.lockUnspents = "true"],
               [DefaultOptions EXCEPT !.lockUnspents = "true", !.change_position = 3],
               [DefaultOptions EXCEPT !.change_type = "valid",
                                      !.change_address = "invalid"],
               [DefaultOptions EXCEPT !.change_type = "unknown", !.feeRate = "set",
                                      !.conf_target = "set"]} :
           fundrawtransaction(tx, options)
    \/ \E fUnlock \in {TRUE}, transactions \in SingleOutputParams :
           lockunspent(fUnlock, transactions, "null")

SpecPolicy == InitListing /\ [][NextPolicy]_vars

\* A wallet with two coins of its own, one of them at an address already
\* spent from, and a third coin of any owner, output type and tier; it
\* watches the foreign address or nothing.
InitBalances ==
    /\ InitLock
    /\ ~fCrypted
    /\ InitRescan
    /\ InitList
    /\ InitFee
    /\ fAvoidReuse \in BOOLEAN
    /\ setWatchOnly \in {{}, {"X"}}
    /\ \E kind \in {"normal", "coinbase", "coinstake"}, depth \in 0..1,
          addr \in {"A", "B", "X"}, type \in {"standard", "blind"} :
          /\ kind # "normal" => depth = 1 /\ type = "standard"
          /\ ~fParticlMode => kind # "coinstake" /\ type = "standard"
          /\ mapWallet =
                [h \in TxIds |->
                    CASE h = 1 -> [NoTx EXCEPT !.present = TRUE, !.depth = 1,
                                       !.vout = <<Out(5, TRUE, "A"), Out(3, TRUE, "B")>>]
                      [] h = 2 -> [NoTx EXCEPT
                                       !.present = TRUE, !.depth = depth,
                                       !.kind = kind, !.in_mempool = (depth = 0),
                                       !.ledger = IF fParticlMode THEN "record"
                                                  ELSE "plain",
                                       !.vout = <<[Out(2, addr # "X", addr) EXCEPT
                                                      !.type = type]>>]
                      [] OTHER -> NoTx]
    /\ setLockedCoins = {}
    /\ setPermLocked = {}
    /\ setUsedKeys = {"B"}
    /\ handedOff = {}
    /\ opRet = NoOp
    /\ requestedLocks = {}

NextBalances ==
    \/ getbalances
    \/ \E fUnlock \in BOOLEAN,
          transactions \in {[null |-> FALSE, v |-> <<[txid |-> op[1], vout |-> op[2]]>>] :
                               op \in {<<1, 0>>, <<2, 0>>}} :
           lockunspent(fUnlock, transactions, "null")
    \/ \E amount \in {7} : sendtoaddress("X", amount, FALSE, FALSE, "null")

SpecBalances == InitBalances /\ [][NextBalances]_vars

\* The initial ledger and one more unconfirmed transaction that spends the
\* coin transaction 3 spends; in a Particl wallet each of the two is held
\* as a plain transaction or as a record.
InitConflicts ==
    /\ InitLock
    /\ ~fCrypted
    /\ InitRescan
    /\ InitList
    /\ InitFee
    /\ fAvoidReuse = FALSE
    /\ setWatchOnly = {}
    /\ \E l3 \in {"plain", "record"}, l4 \in {"plain", "record"} :
          /\ ~fParticlMode => l3 = "plain" /\ l4 = "plain"
          /\ mapWallet =
                [h \in TxIds |->
                    CASE h = 1 -> [NoTx EXCEPT !.present = TRUE, !.depth = 1,
                                       !.vout = <<Out(5, TRUE, "A"), Out(3, TRUE, "B")>>]
                      [] h = 2 -> [NoTx EXCEPT !.present = TRUE, !.depth = 1,
                                       !.vout = <<Out(4, TRUE, "A")>>]
                      [] h = 3 -> [NoTx EXCEPT
                                       !.present = TRUE, !.ledger = l3,
                                       !.vin = {<<1, 1>>}, !.nFee = 1,
                                       !.in_mempool = TRUE,
                                       !.vout = <<Out(1, FALSE, "X"), Out(1, TRUE, "B")>>]
                      [] h = 4 -> [NoTx EXCEPT
                                       !.present = TRUE, !.ledger = l4,
                                       !.vin = {<<1, 1>>}, !.nFee = 2,
                                       !.vout = <<Out(1, FALSE, "X")>>]
                      [] OTHER -> NoTx]
    /\ setLockedCoins = {}
    /\ setPermLocked = {}
    /\ setUsedKeys = {"B"}
    /\ handedOff = {3}
    /\ opRet = NoOp
    /\ requestedLocks = {}

NextConflicts ==
    \/ \E hash \in TxIds \cup {UnknownTx} : gettransaction(hash)
    \/ \E nCount \in {10}, nFrom \in {0} : listtransactions(nCount, nFrom)
    \/ \E hash \in TxIds : abandontransaction(hash)
    \/ \E amount \in {4, 8} : sendtoaddress("X", amount, FALSE, FALSE, "null")

SpecConflicts == InitConflicts /\ [][NextConflicts]_vars

\* Counts and skips below, at and above the number of entries, between
\* sends that add entries.
NextListing ==
    \/ \E nCount \in {-1, 0, 1, 2, 10}, nFrom \in {-1, 0, 1, 3, 10} :
           listtransactions(nCount, nFrom)
    \/ \E amount \in {8} : sendtoaddress("X", amount, FALSE, FALSE, "null")

SpecListing == InitConflicts /\ [][NextListing]_vars

NextFee ==
    \/ \E nAmount \in 0..MaxRate : settxfee(nAmount)
    \/ \E entry \in {"feeRate", "fee_rate", "BTC_KB", "SAT_B", "ECONOMICAL"},
          rate \in {0, 1, WALLET_BTC_KB_TO_SAT_B, (3 * WALLET_BTC_KB_TO_SAT_B) \div 2} :
           ReadFeeOptions(entry, rate)

SpecFee == InitFeePolicy /\ [][NextFee]_vars

NextAbandon ==
    \/ \E hash \in TxIds \cup {UnknownTx} : abandontransaction(hash)
    \/ \E amount \in ListAmounts :
           sendtoaddress("X", amount, FALSE, FALSE, "null")

SpecAbandon == InitListing /\ [][NextAbandon]_vars

NextList ==
    \/ \E t \in Threads, nMinDepth \in {1}, destinations \in {{}, {"A"}},
          include_unsafe \in BOOLEAN :
           ListUnspentEnumerate(t, nMinDepth, destinations, include_unsafe)
    \/ \E t \in Threads : ListUnspentRead(t)
    \/ \E amount \in ListAmounts, avoid_param \in AvoidReuseParams :
           sendtoaddress("X", amount, FALSE, FALSE, avoid_param)

SpecList == InitListing /\ [][NextList]_vars

(***************************************************************************)
(* C1: a relock callback scheduled by an earlier walletpassphrase never    *)
(* locks the wallet once a later walletpassphrase has superseded it and    *)
(* that later call's own timeout has not elapsed.                          *)
(***************************************************************************)
C1_StaleTimerNeverLocks == ~staleLockEarly

AllReturned == \A t \in Threads : wp[t].pc = "idle"

(***************************************************************************)
(* C4: once all walletpassphrase and walletlock calls have returned, the   *)
(* relock time is non-zero only if the wallet is unlocked, and a pending   *)
(* relock timer carries the recorded relock time.                          *)
(***************************************************************************)
C4_TimeoutStateConsistent ==
    AllReturned =>
        /\ (nRelockTime # 0 => ~fLocked)
        /\ (timer # NoTimer => timer.relock_time = nRelockTime)

RescanHolders == {t \in Threads : rs[t].pc # "idle"}

(***************************************************************************)
(* C2: at most one rescanblockchain call holds the rescan reservation, and *)
(* a call started while another call holds it returns the busy error in    *)
(* the same step, without scanning and without changing the wallet.        *)
(***************************************************************************)
C2_SingleRescan ==
    /\ [](Cardinality(RescanHolders) <= 1)
    /\ [][(rsCalls' = rsCalls + 1 /\ RescanHolders # {})
            => /\ rsRet'[rsCaller'] = "Wallet is currently rescanning"
               /\ rs' = rs
               /\ fScanningWallet' = fScanningWallet
               /\ walletScans' = walletScans
               /\ last_scanned_height' = last_scanned_height]_vars

\* A second call was rejected as busy while the first one was scanning.
C2_Witness ==
    \E t \in Threads, u \in Threads :
        /\ t # u
        /\ rs[t].pc = "scan"
        /\ rsRet[u] = "Wallet is currently rescanning"

LockunspentRejected ==
    opRet.op = "lockunspent" /\ opRet.ret # "true"

(***************************************************************************)
(* C5: a lockunspent request that is rejected, for any listed output or    *)
(* for an ill-typed permanent flag, leaves the locked-coin sets as they    *)
(* were before the call.                                                   *)
(***************************************************************************)
C5_LockunspentAllOrNothing ==
    [][(opRet'.tick # opRet.tick /\ opRet'.op = "lockunspent" /\ opRet'.ret # "true")
          => /\ setLockedCoins' = setLockedCoins
             /\ setPermLocked' = setPermLocked]_vars

\* A lock request was rejected for its second output, its first output
\* having passed every check, while other coins were locked.
C5_Witness ==
    /\ LockunspentRejected
    /\ ~opRet.fUnlock
    /\ opRet.partial
    /\ setLockedCoins # {}

(***************************************************************************)
(* C3: the list a listunspent call returns is the list of one wallet       *)
(* state: no operation of another thread takes effect between the          *)
(* enumeration of the coins and the reading of their attributes, so the    *)
(* result is what the call would list in the state it enumerated or in     *)
(* the state it read the attributes in.                                    *)
(***************************************************************************)
C3_ListunspentSingleState ==
    \A t \in Threads :
        luRet[t].returned =>
            luRet[t].results \in {luRet[t].atEnumeration, luRet[t].atRead}

FundOps == {"fundrawtransaction", "walletcreatefundedpsbt"}
FundReturned == opRet'.tick # opRet.tick /\ opRet'.op \in FundOps

(***************************************************************************)
(* C6 as stated: whatever the options, after fundrawtransaction or         *)
(* walletcreatefundedpsbt has returned, with a result or an error, the     *)
(* ledger, the available coins and the locked-coin set are what they were. *)
(***************************************************************************)
C6_FundingLeavesNoSideEffect ==
    [][FundReturned
          => /\ mapWallet' = mapWallet
             /\ handedOff' = handedOff
             /\ AvailableCoins(FALSE, FALSE)' = AvailableCoins(FALSE, FALSE)
             /\ setLockedCoins' = setLockedCoins
             /\ setPermLocked' = setPermLocked]_vars

(***************************************************************************)
(* C6 as amended: funding never changes the ledger; it leaves the          *)
(* available coins and the locked-coin set as they were unless the         *)
(* lockUnspents option is true, and then it only adds coins that were      *)
(* available to the locked-coin set.                                       *)
(***************************************************************************)
C6_FundingLocksOnlyOnRequest ==
    [][FundReturned
          => /\ mapWallet' = mapWallet
             /\ handedOff' = handedOff
             /\ setPermLocked' = setPermLocked
             /\ opRet'.lockUnspents # "true"
                   => /\ setLockedCoins' = setLockedCoins
                      /\ AvailableCoins(FALSE, FALSE)' = AvailableCoins(FALSE, FALSE)
             /\ opRet'.lockUnspents = "true"
                   => /\ setLockedCoins \subseteq setLockedCoins'
                      /\ (setLockedCoins' \ setLockedCoins)
                            \subseteq AvailableCoins(TRUE, FALSE)]_vars

\* A funding call without lockUnspents added inputs of its own choice
\* while other coins were locked.
C6_Witness ==
    /\ opRet.op \in FundOps
    /\ opRet.ret = "ok"
    /\ opRet.lockUnspents = "absent"
    /\ opRet.auto # {}
    /\ setLockedCoins # {}

SendMoneyReturned == opRet'.tick # opRet.tick /\ opRet'.op = "SendMoney"

(***************************************************************************)
(* C7: SendMoney either returns the txid of a transaction it created,      *)
(* with the wallet unlocked, and that transaction alone was added to the   *)
(* ledger and handed to broadcast, or it returns an error and neither      *)
(* the ledger nor what was handed to broadcast has changed.                *)
(***************************************************************************)
C7_SendMoneyTransactional ==
    [][SendMoneyReturned
          => \/ /\ opRet'.ret = "txid"
                /\ ~fLocked
                /\ opRet'.fCreated
                /\ ~HaveTx(opRet'.txid)
                /\ mapWallet'[opRet'.txid].present
                /\ mapWallet'[opRet'.txid].vin # {}
                /\ \A h \in TxIds \ {opRet'.txid} : mapWallet'[h] = mapWallet[h]
                /\ handedOff' = handedOff \cup {opRet'.txid}
             \/ /\ opRet'.ret \in {"RPC_WALLET_UNLOCK_NEEDED",
                                    "RPC_WALLET_INSUFFICIENT_FUNDS"}
                /\ mapWallet' = mapWallet
                /\ handedOff' = handedOff]_vars

\* SendMoney has returned the txid of a transaction that is in the ledger
\* and was handed to broadcast, in a wallet that is encrypted.
C7_Witness ==
    /\ opRet.op = "SendMoney"
    /\ opRet.ret = "txid"
    /\ fCrypted
    /\ mapWallet[opRet.txid].present
    /\ opRet.txid \in handedOff

StageOrder == <<"Eligible", "Built", "Signed", "Committed">>
StagePrefix(st) == \E n \in 0..Len(StageOrder) : st = SubSeq(StageOrder, 1, n)
EndsRejected(st) ==
    /\ st # <<>>
    /\ st[Len(st)] = "Rejected"
    /\ Len(st) <= Len(StageOrder)
    /\ StagePrefix(SubSeq(st, 1, Len(st) - 1))

BumpfeeReturned == opRet'.tick # opRet.tick /\ opRet'.op = "bumpfee"

(***************************************************************************)
(* C8: a bumpfee call passes the stages Eligible, Built, Signed, Committed *)
(* in this order or ends in Rejected; the ledger changes only if the       *)
(* replacement was created with result OK and signed, and then the call    *)
(* returns the txid of the replacement, which supersedes the original; if  *)
(* creation or signing failed the call returns an error and the ledger     *)
(* and the original are as before.                                         *)
(***************************************************************************)
C8_BumpStagesInOrder ==
    [][BumpfeeReturned
          => /\ StagePrefix(opRet'.stages) \/ EndsRejected(opRet'.stages)
             /\ (opRet'.ret = "txid") <=> (opRet'.stages = StageOrder)
             /\ (opRet'.ret # "txid") => EndsRejected(opRet'.stages)
             /\ (mapWallet' # mapWallet \/ handedOff' # handedOff)
                   => (opRet'.fCreated /\ opRet'.fSigned /\ opRet'.ret = "txid")
             /\ (~opRet'.fCreated \/ ~opRet'.fSigned)
                   => /\ opRet'.ret \notin {"txid", "psbt"}
                      /\ mapWallet' = mapWallet
                      /\ handedOff' = handedOff
             /\ (opRet'.ret = "txid")
                   => /\ ~HaveTx(opRet'.txid)
                      /\ mapWallet'[opRet'.txid].present
                      /\ mapWallet[opRet'.hash].replaced_by = 0
                      /\ mapWallet'[opRet'.hash].replaced_by = opRet'.txid
                      /\ opRet'.txid \in handedOff']_vars

\* A bumpfee call went through all four stages and its replacement
\* supersedes the original.
C8_Witness ==
    /\ opRet.op = "bumpfee"
    /\ opRet.ret = "txid"
    /\ opRet.stages = StageOrder
    /\ mapWallet[opRet.hash].replaced_by = opRet.txid
    /\ mapWallet[opRet.txid].present

\* a > b for two amounts as ValueFromAmount writes them.
DecimalGreater(a, b) ==
    LET zero(x) == x.quotient = 0 /\ x.remainder = 0
        more(x, y) == x.quotient > y.quotient
                      \/ (x.quotient = y.quotient /\ x.remainder > y.remainder)
    IN IF a.sign = b.sign
       THEN (IF a.sign THEN more(b, a) ELSE more(a, b))
       ELSE ~a.sign /\ ~(zero(a) /\ zero(b))

BumpSucceeded ==
    /\ opRet'.tick # opRet.tick
    /\ opRet'.op \in {"bumpfee", "psbtbumpfee"}
    /\ opRet'.ret \in {"txid", "psbt"}

(***************************************************************************)
(* C9: a bumpfee or psbtbumpfee call that succeeds reports as origfee the  *)
(* fee of the original and as fee a strictly greater amount, in a Particl  *)
(* wallet (total fee bump) and in a legacy wallet (fee rate bump).         *)
(***************************************************************************)
C9_BumpRaisesFee ==
    [][BumpSucceeded
          => /\ opRet'.origfee = ValueFromAmount(mapWallet[opRet'.hash].nFee)
             /\ DecimalGreater(opRet'.fee, opRet'.origfee)]_vars

\* psbtbumpfee succeeded on a Particl wallet, for an original with a fee.
C9_Witness ==
    /\ opRet.op = "psbtbumpfee"
    /\ opRet.ret = "psbt"
    /\ fParticlMode
    /\ mapWallet[opRet.hash].nFee > 0
    /\ DecimalGreater(opRet.fee, opRet.origfee)

Selected ==
    /\ opRet'.tick # opRet.tick
    /\ opRet'.op \in FundOps \cup {"SendMoney", "sendtypeto"}
    /\ opRet'.fCreated

(***************************************************************************)
(* C10: every coin that a lock request or a funding call with lockUnspents *)
(* has locked, and that no unlock request has unlocked since, is in the    *)
(* locked set, and no funding call or send adds a coin of the locked set   *)
(* to its inputs by its own choice.                                        *)
(***************************************************************************)
C10_LockedNeverSelected ==
    /\ [](requestedLocks \subseteq setLockedCoins)
    /\ [][Selected
            => /\ opRet'.auto \cap requestedLocks = {}
               /\ opRet'.auto \cap setLockedCoins = {}]_vars

\* A send chose its inputs while a coin that a request had locked was
\* unspent and would otherwise have been available.
C10_Witness ==
    /\ opRet.op \in {"SendMoney", "sendtypeto"}
    /\ opRet.ret = "txid"
    /\ opRet.auto # {}
    /\ \E c \in requestedLocks :
          /\ ~IsSpent(c[1], c[2])
          /\ OutputOf(c).mine
          /\ SafeTx(c[1])

(***************************************************************************)
(* C11: with an outpoint locked and the unlocked coins short of the        *)
(* outputs plus fee, a send or a funding request without pre-selected      *)
(* inputs fails with RPC_WALLET_INSUFFICIENT_FUNDS, on both paths, and     *)
(* nothing is committed.                                                   *)
(***************************************************************************)
ShortWhileLocked ==
    /\ opRet'.tick # opRet.tick
    /\ opRet'.short
    /\ setLockedCoins # {}

C11_ShortfallIsInsufficientFunds ==
    [][ShortWhileLocked =>
          /\ opRet'.ret = "RPC_WALLET_INSUFFICIENT_FUNDS"
          /\ mapWallet' = mapWallet
          /\ handedOff' = handedOff]_vars

(***************************************************************************)
(* C12: abandontransaction on a wallet transaction that is confirmed or    *)
(* in the mempool fails with the "not eligible" error and changes nothing  *)
(* in the ledger; on a txid the wallet does not hold it fails with the     *)
(* "invalid or non-wallet transaction id" error and changes nothing.       *)
(***************************************************************************)
AbandonReturned == opRet'.tick # opRet.tick /\ opRet'.op = "abandontransaction"

SendReturned == opRet'.tick # opRet.tick /\ opRet'.op = "send"

SendLedgerChanged == mapWallet' # mapWallet \/ handedOff' # handedOff

C13_SendReportsPartialSigning ==
    [][SendReturned =>
          /\ (opRet'.stages = <<"funded", "filled">> /\ ~opRet'.fSigned) =>
                 /\ opRet'.ret = "ok"
                 /\ ~opRet'.complete
                 /\ {"psbt", "complete"} \subseteq opRet'.result
                 /\ ~SendLedgerChanged
          /\ SendLedgerChanged <=>
                 /\ opRet'.stages = <<"funded", "filled">>
                 /\ opRet'.fSigned
                 /\ opRet'.request.add_to_wallet
                 /\ ~opRet'.request.psbt_opt_in
          /\ (opRet'.ret = "ok" /\ opRet'.fSigned /\ ~SendLedgerChanged) =>
                 "hex" \in opRet'.result
          /\ SendLedgerChanged =>
                 /\ opRet'.complete
                 /\ mapWallet'[opRet'.txid].present
                 /\ ~mapWallet[opRet'.txid].present]_vars

\* A locked wallet answered a send that asked for a commit with an
\* unsigned PSBT.
C13_Witness ==
    /\ opRet.op = "send"
    /\ opRet.ret = "ok"
    /\ ~opRet.complete
    /\ "psbt" \in opRet.result
    /\ opRet.request.add_to_wallet
    /\ ~opRet.request.psbt_opt_in
    /\ fLocked

(***************************************************************************)
(* C14: through any sequence of settxfee calls the configured rate is zero *)
(* or lies between the larger of the relay minimum and the wallet minimum  *)
(* and the wallet maximum; a call with a non-zero rate outside these       *)
(* bounds fails with RPC_INVALID_PARAMETER and leaves the rate unchanged.  *)
(***************************************************************************)
WithinFeeBounds(rate) ==
    /\ rate >= (IF relayMinFee > m_min_fee THEN relayMinFee ELSE m_min_fee)
    /\ rate <= m_default_max_tx_fee

SettxfeeReturned == opRet'.tick # opRet.tick /\ opRet'.op = "settxfee"

C14_PayTxFeeWithinBounds ==
    /\ [](m_pay_tx_fee = 0 \/ WithinFeeBounds(m_pay_tx_fee))
    /\ [][(/\ SettxfeeReturned
           /\ opRet'.amount # 0
           /\ ~WithinFeeBounds(opRet'.amount)) =>
              /\ opRet'.ret = "RPC_INVALID_PARAMETER"
              /\ m_pay_tx_fee' = m_pay_tx_fee]_vars

\* A rate above the maximum was refused while a rate within the bounds
\* stays configured.
C14_Witness ==
    /\ opRet.op = "settxfee"
    /\ opRet.ret = "RPC_INVALID_PARAMETER"
    /\ opRet.amount > m_default_max_tx_fee
    /\ m_pay_tx_fee # 0

(***************************************************************************)
(* C15: at every entry point that takes an explicit fee rate (settxfee,    *)
(* conf_target under the BTC_KB and SAT_B modes, feeRate, fee_rate), a     *)
(* rate of zero is accepted and means automatic selection: it is not       *)
(* rejected and it does not end up as a fee rate of zero on the coin       *)
(* control.                                                                *)
(***************************************************************************)
ZeroRateGiven ==
    /\ opRet'.tick # opRet.tick
    /\ opRet'.op \in {"settxfee", "feeRate", "fee_rate", "BTC_KB", "SAT_B"}
    /\ opRet'.amount = 0

C15_ZeroRateIsAutomatic ==
    [][ZeroRateGiven =>
          /\ opRet'.ret \in {"ok", "true"}
          /\ opRet'.m_feerate # 0]_vars

(***************************************************************************)
(* C16: sendtoaddress and sendmany reject every request in which two       *)
(* recipients decode to the same destination or a recipient's amount is    *)
(* zero or negative, and such a request creates and commits nothing.       *)
(***************************************************************************)
InvalidOutputs(vecSend) ==
    \/ \E i \in 1..Len(vecSend) : vecSend[i].amount <= 0
    \/ \E i, j \in 1..Len(vecSend) :
          /\ i # j
          /\ vecSend[i].address = vecSend[j].address
          /\ vecSend[i].address # "CNoDestination"

PayReturned ==
    /\ opRet'.tick # opRet.tick
    /\ opRet'.op \in {"sendtoaddress", "sendmany", "SendMoney", "sendtypeto"}

MalformedFunded ==
    /\ opRet'.tick # opRet.tick
    /\ opRet'.op = "fundrawtransaction"
    /\ opRet'.policy \in {"malformed", "malformed, undecodable"}

NothingSelected ==
    /\ opRet'.ret \notin {"ok", "RPC_WALLET_ERROR"}
    /\ ~opRet'.fCreated
    /\ opRet'.auto = {}
    /\ setLockedCoins' = setLockedCoins

AmountOfValue(value) ==
    (IF value.sign THEN -1 ELSE 1) * (value.quotient * COIN + value.remainder)

UsedAddsUp(mine, used, trusted, pending, full_trusted, full_pending) ==
    /\ used \in DOMAIN mine
    /\ ~mine[used].sign
    /\ mine[used] = ValueFromAmount(full_trusted + full_pending
                                       - AmountOfValue(mine[trusted])
                                       - AmountOfValue(mine[pending]))
    /\ AmountOfValue(mine[trusted]) + AmountOfValue(mine[pending])
          + AmountOfValue(mine[used]) = full_trusted + full_pending

C18_UsedIsFullLessFiltered ==
    (opRet.op = "getbalances" /\ fAvoidReuse) =>
        /\ UsedAddsUp(opRet.balances["mine"], "used", "trusted", "untrusted_pending",
                      GetBalances(FALSE).nPart, GetBalances(FALSE).nPartUnconf)
        /\ AmountOfValue(opRet.balances["mine"]["trusted"]) = GetBalances(TRUE).nPart
        /\ fParticlMode =>
              UsedAddsUp(opRet.balances["mine"], "blind_used", "blind_trusted",
                         "blind_untrusted_pending",
                         GetBalances(FALSE).nBlind, GetBalances(FALSE).nBlindUnconf)

\* A balance was reported with coins in the filtered pending tier and in the
\* used tier at once.
C18_Witness ==
    /\ opRet.op = "getbalances"
    /\ fAvoidReuse
    /\ AmountOfValue(opRet.balances["mine"]["used"]) > 0
    /\ AmountOfValue(opRet.balances["mine"]["untrusted_pending"]) > 0

(***************************************************************************)
(* C19: getbalances includes the "watchonly" segment if and only if the    *)
(* wallet holds at least one watch-only coin, in any tier and of the plain *)
(* or the blinded class.                                                   *)
(***************************************************************************)
WatchOnlyCoins ==
    {op \in OutPoints :
        /\ HaveOutput(op)
        /\ ~IsSpent(op[1], op[2])
        /\ ~OutputOf(op).mine
        /\ OutputOf(op).addr \in setWatchOnly
        /\ OutputOf(op).type \in {"standard", "blind"}
        /\ TxTier(op[1]) \in {"trusted", "untrusted_pending", "immature", "staked"}}

C19_WatchonlyIffWatchOnlyCoin ==
    opRet.op = "getbalances" =>
        ("watchonly" \in DOMAIN opRet.balances <=> WatchOnlyCoins # {})

(***************************************************************************)
(* C20: for two distinct wallet transactions that spend the same outpoint, *)
(* the walletconflicts reported for either one by gettransaction and       *)
(* listtransactions holds the txid of the other and never its own, in the  *)
(* plain ledger and in the record ledger alike.                            *)
(***************************************************************************)
SpendSameOutpoint(g, h) ==
    /\ g # h
    /\ HaveTx(g)
    /\ HaveTx(h)
    /\ mapWallet[g].vin \cap mapWallet[h].vin # {}

C20_ConflictsAreMutualNotOwn ==
    opRet.op \in {"gettransaction", "listtransactions"} =>
        \A e \in opRet.entries :
            /\ e.txid \notin e.walletconflicts
            /\ \A g \in TxIds :
                  SpendSameOutpoint(g, e.txid) => g \in e.walletconflicts

(***************************************************************************)
(* C21: listtransactions(count, skip) returns at most count entries, the   *)
(* most recent ones after the skip most recent are left out, in a legacy   *)
(* and in a Particl wallet, also when a transaction yields several         *)
(* entries; a negative count or skip is RPC_INVALID_PARAMETER.             *)
(***************************************************************************)
ListedOutputs ==
    {op \in OutPoints :
        /\ HaveOutput(op)
        /\ OutputOf(op).mine \/ mapWallet[op[1]].vin # {}}

\* The wallet's entries that are newer than the entry of op.
NewerEntries(op) ==
    {o \in ListedOutputs : o[1] > op[1] \/ (o[1] = op[1] /\ o[2] < op[2])}

C21_ListIsCountAfterSkip ==
    opRet.op = "listtransactions" =>
        IF opRet.listing.nCount < 0 \/ opRet.listing.nFrom < 0
        THEN opRet.ret = "RPC_INVALID_PARAMETER"
        ELSE /\ opRet.ret = "ok"
             /\ Len(opRet.list) <= opRet.listing.nCount
             /\ {<<e.txid, e.vout>> : e \in opRet.entries} =
                   {op \in ListedOutputs :
                       /\ Cardinality(NewerEntries(op)) >= opRet.listing.nFrom
                       /\ Cardinality(NewerEntries(op)) <
                             opRet.listing.nFrom + opRet.listing.nCount}
             /\ \A i \in 1..Len(opRet.list), j \in 1..Len(opRet.list) :
                   i < j => <<opRet.list[j].txid, opRet.list[j].vout>>
                              \in NewerEntries(<<opRet.list[i].txid,
                                                 opRet.list[i].vout>>)

(***************************************************************************)
(* C29: in listtransactions on a Particl wallet the trimming never wraps:  *)
(* for every skip >= 0 and count >= 0 the index computed for the erase is  *)
(* within the collected entries, and a skip of at least the number of      *)
(* collected entries gives an empty result.                                *)
(***************************************************************************)
C29_TrimmingNeverWraps ==
    (/\ opRet.op = "listtransactions"
     /\ fParticlMode
     /\ opRet.listing.nCount >= 0
     /\ opRet.listing.nFrom >= 0) =>
        /\ opRet.ret = "ok"
        /\ opRet.listing.from <= opRet.listing.collected
        /\ opRet.listing.nFrom >= opRet.listing.collected => opRet.list = <<>>

(***************************************************************************)
(* C22: when the options of send hold replaceable, the transaction is      *)
(* marked BIP125-replaceable if and only if replaceable is true, whatever  *)
(* add_to_wallet says and whether it is there at all.                      *)
(***************************************************************************)
C22_ReplaceableIsWhatWasAsked ==
    (opRet.op = "send" /\ opRet.request.replaceable # "absent") =>
        /\ opRet.ret # "std::runtime_error"
        /\ (opRet.ret = "ok" /\ HaveTx(opRet.txid)) =>
              (mapWallet[opRet.txid].replaceable
                   <=> opRet.request.replaceable = "true")

(***************************************************************************)
(* C23: in every reachable wallet state the trusted, pending and immature  *)
(* tiers of all privacy classes that the balance operations report add up  *)
(* to the value of all coins that are not locked, not of an abandoned      *)
(* transaction and not superseded by a conflict.                           *)
(***************************************************************************)
OwnCoins ==
    {op \in OutPoints :
        /\ HaveOutput(op)
        /\ OutputOf(op).mine
        /\ ~IsSpent(op[1], op[2])
        /\ TxTier(op[1]) # "none"}

ReportedSum(keys) ==
    SumOver(keys \cap DOMAIN opRet.balances["mine"],
            [k \in DOMAIN opRet.balances["mine"] |->
                AmountOfValue(opRet.balances["mine"][k])])

C25_PerByteRateIsExactOrRejected ==
    (opRet.op = "SAT_B" /\ opRet.amount > 0) =>
        \/ opRet.ret = "RPC_INVALID_PARAMETER"
        \/ /\ opRet.m_feerate # 0
           /\ opRet.m_feerate * WALLET_BTC_KB_TO_SAT_B = opRet.amount

(***************************************************************************)
(* C26: the stamp the relock callback compares, nRelockTime = unlock time  *)
(* + timeout, is a strictly increasing generation: every successful        *)
(* walletpassphrase records a stamp greater than that of the unlock        *)
(* before it, so no two unlocks share a stamp.                             *)
(***************************************************************************)
C26_StampStrictlyIncreases ==
    [][(lastStamp'.owner # lastStamp.owner /\ lastStamp.owner # 0) =>
          lastStamp'.stamp > lastStamp.stamp]_vars

(***************************************************************************)
(* C27: after a successful walletpassphrase with a positive timeout or     *)
(* without stakingonly, unless a later walletpassphrase succeeds, the      *)
(* wallet is eventually locked again and nRelockTime is 0 again; after a   *)
(* staking-only unlock with timeout 0 no callback is left to lock it, it   *)
(* stays unlocked until walletlock.  Timers due within MaxTime.            *)
(***************************************************************************)
UnlockReturned(k) ==
    /\ lastStamp.owner = k
    /\ ~lastStamp.unlimited
    /\ timer.owner = k
    /\ timer.due <= MaxTime

UnlimitedUnlockReturned ==
    /\ lastStamp.owner # 0
    /\ lastStamp.unlimited
    /\ \A t \in Threads : wp[t].pc = "idle"
    /\ ~fLocked

CheckedLockStep(none) ==
    LET r == opRet'
        ok == r.op = "lockunspent" /\ r.ret = "true"
        S == r.outputs
        afterLock == /\ opRet.op = "lockunspent" /\ opRet.ret = "true"
                     /\ ~opRet.fUnlock /\ opRet.outputs # {}
    IN
    /\ (ok /\ ~r.fUnlock /\ ~none) =>
           \A op \in S : op \notin setLockedCoins /\ ~IsSpent(op[1], op[2])
    /\ (ok /\ r.fUnlock /\ ~none) => S \subseteq setLockedCoins
    /\ (ok /\ r.fUnlock /\ none) => setLockedCoins' = {}
    /\ (ok /\ ~r.fUnlock /\ none) => setLockedCoins' = setLockedCoins
    /\ (ok /\ r.fUnlock /\ ~none /\ afterLock /\ S = opRet.outputs) =>
           setLockedCoins' = opRet.before
    /\ (r.op = "listlockunspent" /\ afterLock) =>
           \A op \in opRet.outputs :
               Cardinality({i \in 1..Len(r.list) :
                               r.list[i] = [txid |-> op[1], vout |-> op[2]]}) = 1

(***************************************************************************)
(* C28: the locked coins are a set with checked transitions.  A lock       *)
(* request succeeds only if none of its outpoints is locked or spent, an   *)
(* unlock request with outpoints only if each of them is locked; an unlock *)
(* request without outpoints empties the set and a lock request without    *)
(* outpoints changes nothing; after a successful lock of S the list of     *)
(* listlockunspent holds each outpoint of S once, and a successful unlock  *)
(* of S that follows restores the set that held before the lock.           *)
(***************************************************************************)
C28_LocksAreACheckedSet ==
    [][(opRet'.tick # opRet.tick)
          => CheckedLockStep(opRet'.isNull \/ opRet'.outputs = {})]_vars

\* The same with "without outpoints" read as the parameter left out.
C28_OmittedParameterOnly ==
    [][(opRet'.tick # opRet.tick)
          => CheckedLockStep(opRet'.isNull)]_vars

\* lockunspent true [] has returned true and coins are still locked.
UnlockOfEmptyArrayKeepsLocks ==
    /\ opRet.op = "lockunspent" /\ opRet.ret = "true"
    /\ opRet.fUnlock /\ ~opRet.isNull /\ opRet.outputs = {}
    /\ setLockedCoins # {}

RescanExits ==
    {"ok", "Invalid start_height", "Invalid stop_height",
     "stop_height must be greater than start_height",
     "Can't rescan beyond pruned data", "Rescan failed", "Rescan aborted"}

(***************************************************************************)
(* C30: every exit of rescanblockchain releases the rescan reservation.    *)
(* The step in which a call that held the reservation returns, by success, *)
(* by a height error, by the pruned-data error, by scan failure or by      *)
(* abort, leaves the reservation free, and a call that starts while no     *)
(* other call is running is not rejected as busy.                          *)
(***************************************************************************)
C30_EveryExitReleases ==
    /\ [][\A t \in Threads :
             (rs[t].pc # "idle" /\ rs'[t].pc = "idle")
                => (rsRet'[t] \in RescanExits /\ ~fScanningWallet')]_vars
    /\ [][(rsCalls' = rsCalls + 1 /\ RescanHolders = {})
             => rsRet'[rsCaller'] # "Wallet is currently rescanning"]_vars

\* After a call that ended in an error, the next call has reserved and
\* reached the scan.
C30_Witness ==
    \E t \in Threads, u \in Threads :
        /\ t # u
        /\ rsRet[t] \in RescanExits \ {"ok"}
        /\ rs[u].pc = "scan"

====
